---- MODULE Spec2Model ----
(***************************************************************************)
(* Realtime presence tracker and call-session lifecycle of bla-back.       *)
(*                                                                         *)
(*   internal/realtime/centrifuge.go   presence map, connect/disconnect    *)
(*   internal/handlers/calls.go        StartCall / JoinCall / LeaveCall    *)
(*   calls repository (package calls)  SQL statements on calls and         *)
(*                                     call_participants                   *)
(*   internal/database/database.go     table constraints                   *)
(*                                                                         *)
(* The specifications share the variables:                                  *)
(*   SpecTracker   the presence tracker called directly (its contract)     *)
(*   SpecPresence  the tracker driven by the OnConnect/OnDisconnect        *)
(*                 handlers of the node                                    *)
(*   SpecCalls     concurrent StartCall / JoinCall / LeaveCall requests    *)
(*                 against an empty call store                             *)
(*   SpecLeave     concurrent LeaveCall requests against a call in which   *)
(*                 every user is a live participant                        *)
(*   SpecStatus    createCallMessage applied to any CallEndInfo            *)
(*   SpecSeq       StartCall / JoinCall / LeaveCall requests one at a      *)
(*                 time in one conversation                                *)
(***************************************************************************)
EXTENDS Integers, FiniteSets, Sequences, TLC

\* ------------------------------------------------------------------ bounds
MaxUsers == 2
MaxClients == 3
MaxCount == 3
MaxTrackerCalls == 5
MaxConvs == 2
MaxCalls == 2
MaxProcs == 2
MaxRequests == 4
MaxConcurrent == 3
MaxLeaves == 2
MaxTime == 2
MaxDuration == 6
MaxSubscribes == 2
MaxSessions == 2
MaxRows == 1
MaxRecipients == 2
MaxPublishes == 1

Users == 1..MaxUsers
Clients == 1..MaxClients
Convs == 1..MaxConvs
CallIDs == 1..MaxCalls
Procs == 1..MaxProcs

NULL == 0

VARIABLES
    onlineUsers,    \* Node.onlineUsers: Go map userID -> connection count
    lastCall,       \* the last tracker call: operation, argument, map before, result
    clientState,    \* per client: position in the OnConnect/OnDisconnect handlers
    notifyStarted,  \* number of notifyPresenceChange goroutines started, per user and status
    nConnects,      \* per user: addOnlineUser calls completed
    nDisconnects,   \* per user: removeOnlineUser calls completed
    edgesUp,        \* per user: 0 -> 1 transitions of the connection count
    edgesDown,      \* per user: 1 -> 0 transitions of the connection count
    credentials,    \* per client: Credentials.UserID of the ConnectReply, empty for none
    lastConnect,    \* the last OnConnecting call: client, token, outcome
    sub,            \* per client: position in the OnSubscribe handler, channel asked for, requests, acknowledgments
    lastSubscribe,  \* the last reply of a subscribe callback: client, channel, reply
    nSubscribes,    \* subscribe requests handled
    nReadyLoads,    \* GetReadyState calls
    lastLoad,       \* the last GetReadyState call: client, request, user fetch failed, error
    readyPending,   \* per client: the subscribe requests whose READY goroutine sleeps
    readyPublished, \* per client and subscribe request: READY events published
    readyFailed,    \* per client: the subscribe requests whose READY publish failed
    readyChannels,  \* the <<channel, user>> pairs of the READY events published
    friend_requests, \* table friend_requests: from_user_id, to_user_id, status
    userStatus,     \* table users: the status column, per user id
    readyOut,       \* the last ready state built: user, fetch outcomes, result, enriched result
    fetching,       \* the goroutine of GetReadyState: user, fetches started, returned, failed
    wire,           \* node.Publish: how many times each <<channel, payload>> was published
    lastPublish,    \* the last PublishToUser or PublishToUsers call: arguments, failures, attempts
    nPublishes,     \* PublishToUser and PublishToUsers calls made directly
    presenceSent,   \* notifyPresenceChange goroutines that ran, per user and status, and
                    \* per user and friend the status of the last PRESENCE_UPDATE published
    calls,          \* rows of table calls
    call_participants, \* rows of table call_participants
    now,            \* the clock read by time.Now()
    req,            \* per request goroutine: handler position and locals
    resp,           \* HTTP status of the last response written by a handler
    endInfos,       \* per call id: CallEndInfo values returned by EndCall
    endNoops,       \* per call id: EndCall calls that found the call already ended
    endFailed,      \* per call id: EndCall calls that returned an error
    callMessages,   \* per call id: call system messages created
    nCallState,     \* CALL_STATE broadcasts published
    nRequests,      \* requests that passed their handler's first check
    published,      \* the last fan-out of Notifier.NotifyUsers: event and recipients
    scenario        \* SpecSeq only: how far the requests so far follow the scenario
                    \* A starts, B joins, A leaves, B leaves

readyVars == <<readyPending, readyPublished, readyFailed, readyChannels>>

storeVars == <<friend_requests, userStatus, readyOut, fetching>>

publishVars == <<wire, lastPublish, nPublishes, presenceSent>>

sessionVars == <<credentials, lastConnect, sub, lastSubscribe, nSubscribes,
                 nReadyLoads, lastLoad, readyVars, storeVars, publishVars>>

presenceVars == <<onlineUsers, lastCall, clientState, notifyStarted,
                  nConnects, nDisconnects, edgesUp, edgesDown, sessionVars>>

callVars == <<calls, call_participants, now, req, resp, endInfos, endNoops,
              endFailed, callMessages, nCallState, nRequests, published, scenario>>

\* ------------------------------------------------------------ Go map access
\* m[k] of a Go map: the zero value when the key is absent
MapGet(m, k) == IF k \in DOMAIN m THEN m[k] ELSE 0

\* m[k] = v
MapPut(m, k, v) == [x \in (DOMAIN m) \cup {k} |-> IF x = k THEN v ELSE m[x]]

\* delete(m, k)
MapDelete(m, k) == [x \in (DOMAIN m) \ {k} |-> m[x]]

EmptyMap == [x \in {} |-> 0]

\* --------------------------------------------------------- presence tracker
addOnlineUser_RetAlways(m, userID) ==
    [map |-> MapPut(m, userID, MapGet(m, userID) + 1), ret |-> TRUE]

\* wasOffline := n.onlineUsers[userID] == 0; n.onlineUsers[userID]++; return wasOffline
addOnlineUser(m, userID) ==
    [map |-> MapPut(m, userID, MapGet(m, userID) + 1),
     ret |-> (MapGet(m, userID) = 0)]

removeOnlineUser_KeepZero(m, userID) ==
    LET m1 == MapPut(m, userID, MapGet(m, userID) - 1)
    IN  IF MapGet(m1, userID) < 0
        THEN [map |-> MapDelete(m1, userID), ret |-> TRUE]
        ELSE [map |-> m1, ret |-> FALSE]

\* n.onlineUsers[userID]--; if n.onlineUsers[userID] <= 0 { delete; return true }; return false
removeOnlineUser(m, userID) ==
    LET m1 == MapPut(m, userID, MapGet(m, userID) - 1)
    IN  IF MapGet(m1, userID) <= 0
        THEN [map |-> MapDelete(m1, userID), ret |-> TRUE]
        ELSE [map |-> m1, ret |-> FALSE]

IsOnline_AbsentOnline(m, userID) == MapGet(m, userID) >= 0

\* return n.onlineUsers[userID] > 0
IsOnline(m, userID) == MapGet(m, userID) > 0

NoCall == [op |-> "none", user |-> NULL, before |-> EmptyMap, ret |-> FALSE]

\* bookkeeping of one tracker call: the call record and the edge counters
Track(op, userID, r) ==
    /\ onlineUsers' = r.map
    /\ lastCall' = [op |-> op, user |-> userID, before |-> onlineUsers, ret |-> r.ret]
    /\ nConnects' = IF op = "add"
                    THEN [nConnects EXCEPT ![userID] = @ + 1] ELSE nConnects
    /\ nDisconnects' = IF op = "remove"
                       THEN [nDisconnects EXCEPT ![userID] = @ + 1] ELSE nDisconnects
    /\ edgesUp' = IF MapGet(onlineUsers, userID) = 0 /\ MapGet(r.map, userID) = 1
                  THEN [edgesUp EXCEPT ![userID] = @ + 1] ELSE edgesUp
    /\ edgesDown' = IF MapGet(onlineUsers, userID) = 1 /\ MapGet(r.map, userID) = 0
                    THEN [edgesDown EXCEPT ![userID] = @ + 1] ELSE edgesDown

NoConnect == [client |-> NULL, token |-> <<>>, reply |-> "none"]

\* the subscribe requests of one client, numbered in the order they arrive
Requests == 1..MaxSubscribes

IdleSub == [pc |-> "idle", channel |-> <<>>, n |-> 0, acks |-> 0, accepted |-> {}]

NoLoad == [client |-> NULL, request |-> 0, userFailed |-> FALSE, err |-> "none",
           fetched |-> {}]

NoSubscribe == [client |-> NULL, channel |-> <<>>, reply |-> "none"]

\* every user has sent the next one a request, and it was accepted
ChainOfFriends ==
    {[from_user_id |-> u, to_user_id |-> u + 1, status |-> "accepted"] :
        u \in Users \ {MaxUsers}}

NoReadyOut == [user |-> NULL]

NoFetching == [user |-> NULL, started |-> {}, returned |-> {}, failed |-> {},
               result |-> "none"]

NoPublish == [fn |-> "none"]

NoPresenceSent ==
    [ran |-> [u \in Users |-> [s \in {"online", "offline"} |-> 0]],
     last |-> [u \in Users |-> [f \in Users |-> "none"]]]

\* the state of a freshly started server, the sample friendships stored
SessionInit ==
    /\ credentials = [c \in Clients |-> <<>>]
    /\ lastConnect = NoConnect
    /\ sub = [c \in Clients |-> IdleSub]
    /\ lastSubscribe = NoSubscribe
    /\ nSubscribes = 0
    /\ nReadyLoads = 0
    /\ lastLoad = NoLoad
    /\ readyPending = [c \in Clients |-> {}]
    /\ readyPublished = [c \in Clients |-> [k \in Requests |-> 0]]
    /\ readyFailed = [c \in Clients |-> {}]
    /\ readyChannels = {}
    /\ wire = EmptyMap
    /\ lastPublish = NoPublish
    /\ nPublishes = 0
    /\ presenceSent = NoPresenceSent

PresenceInit ==
    /\ onlineUsers = EmptyMap
    /\ lastCall = NoCall
    /\ clientState = [c \in Clients |-> [st |-> "new", user |-> NULL, edge |-> FALSE]]
    /\ notifyStarted = [u \in Users |-> [s \in {"online", "offline"} |-> 0]]
    /\ nConnects = [u \in Users |-> 0]
    /\ nDisconnects = [u \in Users |-> 0]
    /\ edgesUp = [u \in Users |-> 0]
    /\ edgesDown = [u \in Users |-> 0]
    /\ SessionInit
    /\ friend_requests = ChainOfFriends
    /\ userStatus = [u \in Users |-> "offline"]
    /\ readyOut = NoReadyOut
    /\ fetching = NoFetching


\* ------------------------------------------- SpecTracker: the tracker called directly
RECURSIVE SumOver(_, _)
SumOver(f, S) ==
    IF S = {} THEN 0
    ELSE LET x == CHOOSE y \in S : TRUE IN f[x] + SumOver(f, S \ {x})

TrackerCalls == SumOver(nConnects, Users) + SumOver(nDisconnects, Users)

\* Connect(userID): addOnlineUser under the write lock
TrackerConnect(u) ==
    /\ TrackerCalls < MaxTrackerCalls
    /\ MapGet(onlineUsers, u) < MaxCount
    /\ Track("add", u, addOnlineUser(onlineUsers, u))
    /\ UNCHANGED <<clientState, notifyStarted>>
    /\ UNCHANGED <<callVars, sessionVars>>

\* Disconnect(userID): removeOnlineUser under the write lock, for any user id
TrackerDisconnect(u) ==
    /\ TrackerCalls < MaxTrackerCalls
    /\ Track("remove", u, removeOnlineUser(onlineUsers, u))
    /\ UNCHANGED <<clientState, notifyStarted>>
    /\ UNCHANGED <<callVars, sessionVars>>

\* IsOnline(userID) under the read lock
TrackerIsOnline(u) ==
    /\ lastCall' = [op |-> "isOnline", user |-> u, before |-> onlineUsers,
                    ret |-> IsOnline(onlineUsers, u)]
    /\ UNCHANGED <<onlineUsers, clientState, notifyStarted,
                   nConnects, nDisconnects, edgesUp, edgesDown>>
    /\ UNCHANGED <<callVars, sessionVars>>

TrackerNext ==
    \/ \E u \in Users : TrackerConnect(u)
    \/ \E u \in Users : TrackerDisconnect(u)
    \/ \E u \in Users : TrackerIsOnline(u)

\* ----------------------------- SpecPresence: the node's connection handlers
\* OnConnect, first half: userID parsed, wasOffline := n.addOnlineUser(userID)
OnConnectAs(c, u) ==
    /\ LET r == addOnlineUser(onlineUsers, u)
       IN  /\ Track("add", u, r)
           /\ clientState' = [clientState EXCEPT ![c] =
                                 [st |-> "added", user |-> u, edge |-> r.ret]]
    /\ UNCHANGED notifyStarted
    /\ UNCHANGED <<callVars, sessionVars>>

\* a client that the handshake authenticated as user u connects
OnConnect(c, u) ==
    /\ clientState[c].st = "new"
    /\ OnConnectAs(c, u)

\* if wasOffline { go n.notifyPresenceChange(userID, "online") }; the
\* OnSubscribe and OnDisconnect handlers of the client are registered
OnConnectNotify(c) ==
    /\ clientState[c].st = "added"
    /\ notifyStarted' = IF clientState[c].edge
                        THEN [notifyStarted EXCEPT ![clientState[c].user]["online"] = @ + 1]
                        ELSE notifyStarted
    /\ clientState' = [clientState EXCEPT ![c].st = "connected", ![c].edge = FALSE]
    /\ UNCHANGED <<onlineUsers, lastCall, nConnects, nDisconnects, edgesUp, edgesDown>>
    /\ UNCHANGED <<callVars, sessionVars>>

\* OnDisconnect, first half: wentOffline := n.removeOnlineUser(userID)
OnDisconnect(c) ==
    /\ clientState[c].st = "connected"
    /\ LET u == clientState[c].user
           r == removeOnlineUser(onlineUsers, u)
       IN  /\ Track("remove", u, r)
           /\ clientState' = [clientState EXCEPT ![c].st = "removed", ![c].edge = r.ret]
    /\ UNCHANGED notifyStarted
    /\ UNCHANGED <<callVars, sessionVars>>

\* if wentOffline { go n.notifyPresenceChange(userID, "offline") }
OnDisconnectNotify(c) ==
    /\ clientState[c].st = "removed"
    /\ notifyStarted' = IF clientState[c].edge
                        THEN [notifyStarted EXCEPT ![clientState[c].user]["offline"] = @ + 1]
                        ELSE notifyStarted
    /\ clientState' = [clientState EXCEPT ![c].st = "closed", ![c].edge = FALSE]
    /\ UNCHANGED <<onlineUsers, lastCall, nConnects, nDisconnects, edgesUp, edgesDown>>
    /\ UNCHANGED <<callVars, sessionVars>>

PresenceNext ==
    \/ \E c \in Clients, u \in Users : OnConnect(c, u)
    \/ \E c \in Clients : OnConnectNotify(c)
    \/ \E c \in Clients : OnDisconnect(c)
    \/ \E c \in Clients : OnDisconnectNotify(c)

\* ===================================================== call store (SQL tables)
\* CREATE TABLE calls: UNIQUE(conversation_id, ended_at). SQL NULLs are
\* distinct from each other in a UNIQUE constraint, so only two rows with the
\* same conversation and the same non-null ended_at conflict.
CallsUniqueOK(rows) ==
    \A r1, r2 \in rows :
        (r1 /= r2 /\ r1.conversation_id = r2.conversation_id /\ r1.ended_at /= NULL)
            => r1.ended_at /= r2.ended_at

\* CREATE TABLE call_participants: PRIMARY KEY (call_id, user_id, joined_at)
ParticipantsPKFree(rows, call_id, user_id, joined_at) ==
    ~\E r \in rows : r.call_id = call_id /\ r.user_id = user_id /\ r.joined_at = joined_at

\* uuid.New(): an id no row has
\* the mutant: the id of the latest call is used again
NewCallID_Reuse == IF calls = {} THEN 1 ELSE Cardinality(calls)

NewCallID == Cardinality(calls) + 1

CallRow(id) == CHOOSE c \in calls : c.id = id

\* rows of call_participants WHERE call_id = $1 AND left_at IS NULL
LiveRows(call_id) ==
    {r \in call_participants : r.call_id = call_id /\ r.left_at = NULL}

\* SELECT ... FROM calls WHERE conversation_id = $1 AND ended_at IS NULL
\* ORDER BY started_at DESC LIMIT 1: the ids the query can return, NULL for no rows
GetActiveCallForConversation(conversationID) ==
    LET act == {c \in calls : c.conversation_id = conversationID /\ c.ended_at = NULL}
        top == {c \in act : \A d \in act : d.started_at <= c.started_at}
    IN  IF act = {} THEN {NULL} ELSE {c.id : c \in top}

\* SELECT ... FROM calls WHERE id = $1: NULL for no rows
GetCallWithParticipants(callID) ==
    IF \E c \in calls : c.id = callID THEN callID ELSE NULL

\* SELECT c.* FROM calls c JOIN call_participants cp ON c.id = cp.call_id
\* WHERE cp.user_id = $1 AND cp.left_at IS NULL AND c.ended_at IS NULL LIMIT 1:
\* the ids the query can return (no ORDER BY), NULL for no rows
IsUserInCall(userID) ==
    LET found == {c \in calls : /\ c.ended_at = NULL
                                /\ \E r \in LiveRows(c.id) : r.user_id = userID}
    IN  IF found = {} THEN {NULL} ELSE {c.id : c \in found}

\* SELECT COUNT(*) FROM call_participants WHERE call_id = $1 AND left_at IS NULL
GetActiveParticipantCount(callID) == Cardinality(LiveRows(callID))

GetActiveParticipants_AllRows(callID) ==
    {r.user_id : r \in {x \in call_participants : x.call_id = callID}}

\* SELECT user_id FROM call_participants WHERE call_id = $1 AND left_at IS NULL
GetActiveParticipants(callID) == {r.user_id : r \in LiveRows(callID)}

\* UPDATE call_participants SET left_at = $1 WHERE call_id = $2 AND left_at IS NULL
MarkAllLeft(rows, callID, t) ==
    {IF r.call_id = callID /\ r.left_at = NULL THEN [r EXCEPT !.left_at = t] ELSE r
        : r \in rows}

LeaveCall_Everyone(rows, callID, userID, t) == MarkAllLeft(rows, callID, t)

\* Repository.LeaveCall: UPDATE call_participants SET left_at = $1
\* WHERE call_id = $2 AND user_id = $3 AND left_at IS NULL
LeaveCall(rows, callID, userID, t) ==
    {IF r.call_id = callID /\ r.user_id = userID /\ r.left_at = NULL
     THEN [r EXCEPT !.left_at = t] ELSE r : r \in rows}

CallIsEmpty_Never(count) == count < 0

\* if count == 0 { EndCall ... }
CallIsEmpty(count) == count = 0

\* rows of table conversation_participants, which no call operation writes:
\* every user is in conversation 1, every user but user 1 in the others
conversation_participants ==
    {r \in [conversation_id : Convs, user_id : Users] :
        r.conversation_id = 1 \/ r.user_id /= 1}

\* SELECT user_id FROM conversation_participants WHERE conversation_id = $1
GetParticipantIDs(conversationID) ==
    {r.user_id : r \in {x \in conversation_participants :
                            x.conversation_id = conversationID}}

IdleReq == [pc |-> "idle", op |-> "none", user |-> NULL, conv |-> NULL, callID |-> NULL,
            bcCall |-> NULL, bcParts |-> {}]

NoScenario == [step |-> 0, a |-> NULL, b |-> NULL, call |-> NULL]

NoEvent == [type |-> "none", conversation_id |-> NULL, to |-> {}, failed |-> {},
            data |-> [call_id |-> NULL, participants |-> {}]]

CallsInit ==
    /\ calls = {}
    /\ call_participants = {}
    /\ now = 1
    /\ req = [p \in Procs |-> IdleReq]
    /\ resp = 0
    /\ endInfos = [c \in CallIDs |-> 0]
    /\ endNoops = [c \in CallIDs |-> 0]
    /\ endFailed = [c \in CallIDs |-> 0]
    /\ callMessages = [c \in CallIDs |-> 0]
    /\ nCallState = 0
    /\ nRequests = 0
    /\ published = NoEvent
    /\ scenario = NoScenario

\* CallEndInfo: call id, conversation id, starter, every user that ever had a
\* participant row of the call, duration = end - start in whole seconds
CallEndInfo(c, ps, t) ==
    [call_id |-> c.id, conversation_id |-> c.conversation_id,
     started_by |-> c.started_by,
     participants |-> {r.user_id : r \in {x \in ps : x.call_id = c.id}},
     duration |-> t - c.started_at]

\* Repository.EndCall as called by the handler (it returns a *CallEndInfo): in
\* one transaction, a call whose ended_at is already set is left alone and no
\* CallEndInfo is returned; otherwise every live participant row is marked left,
\* ended_at is set and the CallEndInfo is returned. A constraint violation rolls
\* the transaction back and returns an error.
EndCall(cs, ps, callID, t) ==
    LET c == CHOOSE x \in cs : x.id = callID
        cs2 == (cs \ {c}) \cup {[c EXCEPT !.ended_at = t]}
    IN  IF c.ended_at /= NULL
        THEN [calls |-> cs, parts |-> ps, info |-> FALSE, err |-> FALSE,
              callInfo |-> CallEndInfo(c, ps, t)]
        ELSE IF CallsUniqueOK(cs2)
        THEN [calls |-> cs2, parts |-> MarkAllLeft(ps, callID, t),
              info |-> TRUE, err |-> FALSE, callInfo |-> CallEndInfo(c, ps, t)]
        ELSE [calls |-> cs, parts |-> ps, info |-> FALSE, err |-> TRUE,
              callInfo |-> CallEndInfo(c, ps, t)]

\* createCallMessage: the duration below which a call with one participant is missed
MissedBelow == 5

CallStatus_OneParticipant(info) ==
    IF Cardinality(info.participants) = 1 THEN "missed" ELSE "completed"

\* status := "completed"; if info.Duration < 5 && len(info.Participants) == 1 { status = "missed" }
CallStatus(info) ==
    IF info.duration < MissedBelow /\ Cardinality(info.participants) = 1
    THEN "missed" ELSE "completed"

\* createCallMessage: the content of the call message and the message row
\* CreateCallMessage inserts (the sender is the user who started the call)
CallMessage(info) ==
    [conversation_id |-> info.conversation_id, sender_id |-> info.started_by,
     type |-> "call",
     content |-> [call_id |-> info.call_id, duration |-> info.duration,
                  participants |-> info.participants, status |-> CallStatus(info)]]

MessageCreateEvent_ToStarter(info) ==
    [type |-> "MESSAGE_CREATE", conversation_id |-> info.conversation_id,
     to |-> {info.started_by}, failed |-> {},
     data |-> [message |-> CallMessage(info), conversation_id |-> info.conversation_id]]

\* NotifyUsers(participantIDs, "MESSAGE_CREATE", {message, conversation_id})
MessageCreateEvent(info) ==
    [type |-> "MESSAGE_CREATE", conversation_id |-> info.conversation_id,
     to |-> GetParticipantIDs(info.conversation_id), failed |-> {},
     data |-> [message |-> CallMessage(info), conversation_id |-> info.conversation_id]]

CreatesCallMessage_AnyResult(r) == ~r.err

\* if err != nil { log } else if callInfo != nil { createCallMessage(callInfo) }
CreatesCallMessage(r) == ~r.err /\ r.info

CallStateEvent_ToCall(conversationID, call, participants) ==
    [type |-> "CALL_STATE", conversation_id |-> conversationID,
     to |-> participants, failed |-> {},
     data |-> [call_id |-> call, participants |-> participants]]

\* models.CallStateEvent{ConversationID, CallID, Participants} and its recipients
CallStateEvent(conversationID, call, participants) ==
    [type |-> "CALL_STATE", conversation_id |-> conversationID,
     to |-> GetParticipantIDs(conversationID), failed |-> {},
     data |-> [call_id |-> call, participants |-> participants]]

\* Notifier.NotifyUsers -> Node.PublishToUsers: the publish to each recipient in
\* fails fails, is logged, and the loop goes on; nothing is returned
NotifyUsers(event, fails) == [event EXCEPT !.failed = event.to \cap fails]

\* ------------------------------------------------- SpecCalls: request handlers
\* the request of goroutine p is answered with an HTTP status
Respond(p, status) ==
    /\ req' = [req EXCEPT ![p] = IdleReq]
    /\ resp' = status

Goto(p, pc) == req' = [req EXCEPT ![p].pc = pc]

\* time.Now(): the clock never goes back; the times a read can return
TimeNow == now..MaxTime

\* StartCall: request decoded, existingCall := IsUserInCall(userID);
\* 409 "Already in another call" if it is a call of another conversation
StartCall_IsUserInCall(p, userID, conversationID) ==
    /\ req[p].pc = "idle"
    /\ nRequests < MaxRequests
    /\ \E existingCall \in IsUserInCall(userID) :
          IF existingCall /= NULL /\ CallRow(existingCall).conversation_id /= conversationID
          THEN Respond(p, 409) /\ UNCHANGED nRequests
          ELSE /\ nRequests' = nRequests + 1
               /\ req' = [req EXCEPT ![p] = [IdleReq EXCEPT !.pc = "sc_find", !.op = "start",
                                                !.user = userID, !.conv = conversationID]]
               /\ UNCHANGED resp
    /\ UNCHANGED <<calls, call_participants, now, endInfos, endNoops, endFailed,
                   callMessages, nCallState, published, scenario>>
    /\ UNCHANGED presenceVars

\* StartCall: call := GetActiveCallForConversation(conversationID)
StartCall_GetActive(p) ==
    /\ req[p].pc = "sc_find"
    /\ \E call \in GetActiveCallForConversation(req[p].conv) :
          req' = [req EXCEPT ![p].pc = "sc_write", ![p].callID = call]
    /\ UNCHANGED <<calls, call_participants, now, resp, endInfos, endNoops, endFailed,
                   callMessages, nCallState, nRequests, published, scenario>>
    /\ UNCHANGED presenceVars

JoinCallInsert_NoRow(p, t) ==
    /\ Goto(p, "bc_call")
    /\ UNCHANGED <<resp, call_participants>>

\* Repository.JoinCall: INSERT INTO call_participants (call_id, user_id, joined_at)
\* then user lookup and voice token; on an insert error 500
JoinCallInsert(p, t) ==
    IF ParticipantsPKFree(call_participants, req[p].callID, req[p].user, t)
    THEN /\ call_participants' = call_participants \cup
                {[call_id |-> req[p].callID, user_id |-> req[p].user,
                  joined_at |-> t, left_at |-> NULL]}
         /\ Goto(p, "bc_call")
         /\ UNCHANGED resp
    ELSE /\ Respond(p, 500)
         /\ UNCHANGED call_participants

NewCall_Ended(id, conversationID, userID, t) ==
    [id |-> id, conversation_id |-> conversationID, started_by |-> userID,
     started_at |-> t, ended_at |-> t]

\* Repository.StartCall: call := &Call{ID: uuid.New(), ConversationID, StartedBy:
\* userID, StartedAt: time.Now()}, inserted without ended_at
NewCall(id, conversationID, userID, t) ==
    [id |-> id, conversation_id |-> conversationID, started_by |-> userID,
     started_at |-> t, ended_at |-> NULL]

\* StartCall: if call == nil, Repository.StartCall inserts the call row and the
\* starter's participant row in one transaction; else Repository.JoinCall
StartCall_Write(p) ==
    /\ req[p].pc = "sc_write"
    /\ \E t \in TimeNow :
          /\ now' = t
          /\ IF req[p].callID = NULL
             THEN /\ Cardinality(calls) < MaxCalls
                  /\ LET row == NewCall(NewCallID, req[p].conv, req[p].user, t)
                     IN  IF CallsUniqueOK(calls \cup {row})
                         THEN /\ calls' = calls \cup {row}
                              /\ call_participants' = call_participants \cup
                                     {[call_id |-> row.id, user_id |-> req[p].user,
                                       joined_at |-> t, left_at |-> NULL]}
                              /\ req' = [req EXCEPT ![p].pc = "bc_call",
                                                    ![p].callID = row.id]
                              /\ UNCHANGED resp
                         ELSE /\ Respond(p, 500)
                              /\ UNCHANGED <<calls, call_participants>>
             ELSE /\ JoinCallInsert(p, t)
                  /\ UNCHANGED calls
    /\ UNCHANGED <<endInfos, endNoops, endFailed, callMessages, nCallState, nRequests,
                   published, scenario>>
    /\ UNCHANGED presenceVars

\* JoinCall: call := GetCallWithParticipants(callID); 404 if there is none,
\* 410 if call.EndedAt != nil
JoinCall_Get(p, userID, callID) ==
    /\ req[p].pc = "idle"
    /\ nRequests < MaxRequests
    /\ LET call == GetCallWithParticipants(callID)
       IN  IF call = NULL THEN Respond(p, 404) /\ UNCHANGED nRequests
           ELSE IF CallRow(call).ended_at /= NULL THEN Respond(p, 410) /\ UNCHANGED nRequests
           ELSE /\ nRequests' = nRequests + 1
                /\ req' = [req EXCEPT ![p] = [IdleReq EXCEPT !.pc = "jc_write", !.op = "join",
                               !.user = userID, !.callID = callID,
                               !.conv = CallRow(call).conversation_id]]
                /\ UNCHANGED resp
    /\ UNCHANGED <<calls, call_participants, now, endInfos, endNoops, endFailed,
                   callMessages, nCallState, published, scenario>>
    /\ UNCHANGED presenceVars

\* JoinCall: Repository.JoinCall(callID, userID)
JoinCall_Write(p) ==
    /\ req[p].pc = "jc_write"
    /\ \E t \in TimeNow : now' = t /\ JoinCallInsert(p, t)
    /\ UNCHANGED <<calls, endInfos, endNoops, endFailed, callMessages,
                   nCallState, nRequests, published, scenario>>
    /\ UNCHANGED presenceVars

\* LeaveCall: call := GetCallWithParticipants(callID); 404 if there is none
LeaveCall_Get(p, userID, callID) ==
    /\ req[p].pc = "idle"
    /\ nRequests < MaxRequests
    /\ LET call == GetCallWithParticipants(callID)
       IN  IF call = NULL THEN Respond(p, 404) /\ UNCHANGED nRequests
           ELSE /\ nRequests' = nRequests + 1
                /\ req' = [req EXCEPT ![p] = [IdleReq EXCEPT !.pc = "lc_leave", !.op = "leave",
                               !.user = userID, !.callID = callID,
                               !.conv = CallRow(call).conversation_id]]
                /\ UNCHANGED resp
    /\ UNCHANGED <<calls, call_participants, now, endInfos, endNoops, endFailed,
                   callMessages, nCallState, published, scenario>>
    /\ UNCHANGED presenceVars

\* LeaveCall: Repository.LeaveCall(callID, userID)
LeaveCall_Leave(p) ==
    /\ req[p].pc = "lc_leave"
    /\ \E t \in TimeNow :
          /\ now' = t
          /\ call_participants' = LeaveCall(call_participants, req[p].callID, req[p].user, t)
    /\ Goto(p, "lc_count")
    /\ UNCHANGED <<calls, resp, endInfos, endNoops, endFailed, callMessages,
                   nCallState, nRequests, published, scenario>>
    /\ UNCHANGED presenceVars

\* var count int; err := QueryRow(...).Scan(&count); return count, err: a failed
\* query leaves count at its zero value, and the handler drops the error
CountOrZero(count, ok) == IF ok THEN count ELSE 0

\* LeaveCall: count, _ := GetActiveParticipantCount(callID); if count == 0 ...
LeaveCall_CountQuery(p, ok) ==
    /\ req[p].pc = "lc_count"
    /\ IF CallIsEmpty(CountOrZero(GetActiveParticipantCount(req[p].callID), ok))
       THEN Goto(p, "lc_end")
       ELSE Goto(p, "bc_call")
    /\ UNCHANGED <<calls, call_participants, now, resp, endInfos, endNoops, endFailed,
                   callMessages, nCallState, nRequests, published, scenario>>
    /\ UNCHANGED presenceVars

\* the count query succeeds
LeaveCall_Count(p) == LeaveCall_CountQuery(p, TRUE)

\* LeaveCall: callInfo, err := EndCall(callID); on an error it is logged; if
\* callInfo != nil, createCallMessage(callInfo) creates the call message and
\* publishes MESSAGE_CREATE to the conversation's participants
LeaveCall_EndCall(p, fails) ==
    /\ req[p].pc = "lc_end"
    /\ \E t \in TimeNow :
          LET id == req[p].callID
              r == EndCall(calls, call_participants, id, t)
          IN  /\ now' = t
              /\ calls' = r.calls
              /\ call_participants' = r.parts
              /\ endInfos' = IF r.info THEN [endInfos EXCEPT ![id] = @ + 1] ELSE endInfos
              /\ endNoops' = IF ~r.info /\ ~r.err
                             THEN [endNoops EXCEPT ![id] = @ + 1] ELSE endNoops
              /\ endFailed' = IF r.err THEN [endFailed EXCEPT ![id] = @ + 1] ELSE endFailed
              /\ callMessages' = IF CreatesCallMessage(r)
                                 THEN [callMessages EXCEPT ![id] = @ + 1] ELSE callMessages
              /\ published' = IF CreatesCallMessage(r)
                              THEN NotifyUsers(MessageCreateEvent(r.callInfo), fails)
                              ELSE published
    /\ Goto(p, "bc_call")
    /\ UNCHANGED <<resp, nCallState, nRequests, scenario>>
    /\ UNCHANGED presenceVars

\* every publish of the fan-out succeeds
LeaveCall_End(p) == LeaveCall_EndCall(p, {})

\* broadcastCallState(conversationID): participantIDs := GetParticipantIDs;
\* call, err := GetActiveCallForConversation(conversationID)
Broadcast_GetActive(p) ==
    /\ req[p].pc = "bc_call"
    /\ \E call \in GetActiveCallForConversation(req[p].conv) :
          req' = [req EXCEPT ![p].pc = IF call = NULL THEN "bc_pub" ELSE "bc_parts",
                             ![p].bcCall = call]
    /\ UNCHANGED <<calls, call_participants, now, resp, endInfos, endNoops, endFailed,
                   callMessages, nCallState, nRequests, published, scenario>>
    /\ UNCHANGED presenceVars

\* broadcastCallState: if err == nil && call != nil,
\* participants, _ := GetActiveParticipants(call.ID)
Broadcast_GetParticipants(p) ==
    /\ req[p].pc = "bc_parts"
    /\ req' = [req EXCEPT ![p].pc = "bc_pub",
                          ![p].bcParts = GetActiveParticipants(req[p].bcCall)]
    /\ UNCHANGED <<calls, call_participants, now, resp, endInfos, endNoops, endFailed,
                   callMessages, nCallState, nRequests, published, scenario>>
    /\ UNCHANGED presenceVars

\* broadcastCallState: NotifyUsers(participantIDs, "CALL_STATE", event); then the
\* handler writes its response: 204 for LeaveCall, the CallResponse otherwise
\* the mutant: a failed publish fails the request
NotifyCallState_FailOnError(p, fails) ==
    /\ req[p].pc = "bc_pub"
    /\ published' = NotifyUsers(CallStateEvent(req[p].conv, req[p].bcCall, req[p].bcParts),
                                fails)
    /\ nCallState' = nCallState + 1
    /\ Respond(p, IF published'.failed /= {} THEN 500
                  ELSE IF req[p].op = "leave" THEN 204 ELSE 200)
    /\ UNCHANGED <<calls, call_participants, now, endInfos, endNoops, endFailed,
                   callMessages, nRequests>>
    /\ UNCHANGED presenceVars

NotifyCallState(p, fails) ==
    /\ req[p].pc = "bc_pub"
    /\ published' = NotifyUsers(CallStateEvent(req[p].conv, req[p].bcCall, req[p].bcParts),
                                fails)
    /\ nCallState' = nCallState + 1
    /\ Respond(p, IF req[p].op = "leave" THEN 204 ELSE 200)
    /\ UNCHANGED <<calls, call_participants, now, endInfos, endNoops, endFailed,
                   callMessages, nRequests>>
    /\ UNCHANGED presenceVars

\* every publish of the fan-out succeeds
Broadcast_Notify(p) == NotifyCallState(p, {}) /\ UNCHANGED scenario

\* at most MaxConcurrent requests get past their handler's first check
CallsNext ==
    \/ \E p \in Procs, u \in Users, c \in Convs :
          nRequests < MaxConcurrent /\ StartCall_IsUserInCall(p, u, c)
    \/ \E p \in Procs : StartCall_GetActive(p)
    \/ \E p \in Procs : StartCall_Write(p)
    \/ \E p \in Procs, u \in Users, id \in CallIDs :
          nRequests < MaxConcurrent /\ JoinCall_Get(p, u, id)
    \/ \E p \in Procs : JoinCall_Write(p)
    \/ \E p \in Procs, u \in Users, id \in CallIDs :
          nRequests < MaxConcurrent /\ LeaveCall_Get(p, u, id)
    \/ \E p \in Procs : LeaveCall_Leave(p)
    \/ \E p \in Procs : LeaveCall_Count(p)
    \/ \E p \in Procs : LeaveCall_End(p)
    \/ \E p \in Procs : Broadcast_GetActive(p)
    \/ \E p \in Procs : Broadcast_GetParticipants(p)
    \/ \E p \in Procs : Broadcast_Notify(p)

\* LeaveCall requests only, at most MaxLeaves of them accepted
LeaveNext ==
    \/ \E p \in Procs, u \in Users, id \in CallIDs :
          nRequests < MaxLeaves /\ LeaveCall_Get(p, u, id)
    \/ \E p \in Procs : LeaveCall_Leave(p)
    \/ \E p \in Procs : LeaveCall_Count(p)
    \/ \E p \in Procs : LeaveCall_End(p)
    \/ \E p \in Procs : Broadcast_GetActive(p)
    \/ \E p \in Procs : Broadcast_GetParticipants(p)
    \/ \E p \in Procs : Broadcast_Notify(p)

\* LeaveCall requests whose count query can fail
CountNext ==
    \/ \E p \in Procs, u \in Users, id \in CallIDs :
          nRequests < MaxLeaves /\ LeaveCall_Get(p, u, id)
    \/ \E p \in Procs : LeaveCall_Leave(p)
    \/ \E p \in Procs, ok \in BOOLEAN : LeaveCall_CountQuery(p, ok)
    \/ \E p \in Procs : LeaveCall_End(p)
    \/ \E p \in Procs : Broadcast_GetActive(p)
    \/ \E p \in Procs : Broadcast_GetParticipants(p)
    \/ \E p \in Procs : Broadcast_Notify(p)

\* one request at a time: every handler runs in the same goroutine
SeqProcs == {CHOOSE p \in Procs : TRUE}

\* and every call is started in the same conversation
SeqConvs == {CHOOSE c \in Convs : TRUE}

\* the scenario after the request of goroutine p published its CALL_STATE event:
\* step k when the completed requests are exactly the first k of "A starts a call
\* in a conversation without one, B joins that call, A leaves it, B leaves it"
ScenarioAfter(p) ==
    LET r == req[p]
    IN  IF scenario.step = 0 /\ nCallState = 0 /\ r.op = "start"
        THEN [step |-> 1, a |-> r.user, b |-> NULL, call |-> r.callID]
        ELSE IF scenario.step = 1 /\ r.op = "join" /\ r.user /= scenario.a
                   /\ r.callID = scenario.call
        THEN [scenario EXCEPT !.step = 2, !.b = r.user]
        ELSE IF scenario.step = 2 /\ r.op = "leave" /\ r.user = scenario.a
                   /\ r.callID = scenario.call
        THEN [scenario EXCEPT !.step = 3]
        ELSE IF scenario.step = 3 /\ r.op = "leave" /\ r.user = scenario.b
                   /\ r.callID = scenario.call
        THEN [scenario EXCEPT !.step = 4]
        ELSE [step |-> -1, a |-> NULL, b |-> NULL, call |-> NULL]

\* the CALL_STATE event is published and the scenario advances
Seq_Notify(p) ==
    /\ NotifyCallState(p, {})
    /\ scenario' = ScenarioAfter(p)

SeqNext ==
    \/ \E p \in SeqProcs, u \in Users, c \in SeqConvs : StartCall_IsUserInCall(p, u, c)
    \/ \E p \in SeqProcs : StartCall_GetActive(p)
    \/ \E p \in SeqProcs : StartCall_Write(p)
    \/ \E p \in SeqProcs, u \in Users, id \in CallIDs : JoinCall_Get(p, u, id)
    \/ \E p \in SeqProcs : JoinCall_Write(p)
    \/ \E p \in SeqProcs, u \in Users, id \in CallIDs : LeaveCall_Get(p, u, id)
    \/ \E p \in SeqProcs : LeaveCall_Leave(p)
    \/ \E p \in SeqProcs : LeaveCall_Count(p)
    \/ \E p \in SeqProcs : LeaveCall_End(p)
    \/ \E p \in SeqProcs : Broadcast_GetActive(p)
    \/ \E p \in SeqProcs : Broadcast_GetParticipants(p)
    \/ \E p \in SeqProcs : Seq_Notify(p)

\* ------------------ SpecFanout: one request at a time, publishes that can fail
\* LeaveCall ends the call; any of the MESSAGE_CREATE publishes can fail
Fanout_End(p) == \E fails \in SUBSET Users : LeaveCall_EndCall(p, fails)

\* broadcastCallState; any of the CALL_STATE publishes can fail
Fanout_Notify(p) ==
    \E fails \in SUBSET Users : NotifyCallState(p, fails) /\ UNCHANGED scenario

FanoutNext ==
    \/ \E p \in SeqProcs, u \in Users, c \in Convs : StartCall_IsUserInCall(p, u, c)
    \/ \E p \in SeqProcs : StartCall_GetActive(p)
    \/ \E p \in SeqProcs : StartCall_Write(p)
    \/ \E p \in SeqProcs, u \in Users, id \in CallIDs : JoinCall_Get(p, u, id)
    \/ \E p \in SeqProcs : JoinCall_Write(p)
    \/ \E p \in SeqProcs, u \in Users, id \in CallIDs : LeaveCall_Get(p, u, id)
    \/ \E p \in SeqProcs : LeaveCall_Leave(p)
    \/ \E p \in SeqProcs : LeaveCall_Count(p)
    \/ \E p \in SeqProcs : Fanout_End(p)
    \/ \E p \in SeqProcs : Broadcast_GetActive(p)
    \/ \E p \in SeqProcs : Broadcast_GetParticipants(p)
    \/ \E p \in SeqProcs : Fanout_Notify(p)

\* the store after user 1 started a call in conversation 1 and every other
\* user joined it
OneCallAllJoined ==
    /\ calls = {[id |-> 1, conversation_id |-> 1, started_by |-> 1,
                 started_at |-> 1, ended_at |-> NULL]}
    /\ call_participants = {[call_id |-> 1, user_id |-> u, joined_at |-> 1,
                             left_at |-> NULL] : u \in Users}

\* the store after every user left that call and the last leave ended it
OneCallEnded ==
    /\ calls = {[id |-> 1, conversation_id |-> 1, started_by |-> 1,
                 started_at |-> 1, ended_at |-> 1]}
    /\ call_participants = {[call_id |-> 1, user_id |-> u, joined_at |-> 1,
                             left_at |-> 1] : u \in Users}

\* the call is either still joined by everyone or already ended, with the one
\* CallEndInfo and call message of its end
LeaveInit ==
    /\ PresenceInit
    /\ \/ /\ OneCallAllJoined
          /\ endInfos = [c \in CallIDs |-> 0]
          /\ callMessages = [c \in CallIDs |-> 0]
       \/ /\ OneCallEnded
          /\ endInfos = [c \in CallIDs |-> IF c = 1 THEN 1 ELSE 0]
          /\ callMessages = [c \in CallIDs |-> IF c = 1 THEN 1 ELSE 0]
    /\ now = 1
    /\ req = [p \in Procs |-> IdleReq]
    /\ resp = 0
    /\ endNoops = [c \in CallIDs |-> 0]
    /\ endFailed = [c \in CallIDs |-> 0]
    /\ nCallState = 0
    /\ nRequests = 0
    /\ published = NoEvent
    /\ scenario = NoScenario

\* ------------- SpecError: one StartCall or JoinCall whose user lookup can fail
\* StartCall and JoinCall after the store write: GetUserByID or GenerateToken
\* returns an error, the handler answers 500 and returns before the broadcast
Handler_LookupError(p) ==
    /\ req[p].pc = "bc_call"
    /\ req[p].op \in {"start", "join"}
    /\ Respond(p, 500)
    /\ UNCHANGED <<calls, call_participants, now, endInfos, endNoops, endFailed,
                   callMessages, nCallState, nRequests, published, scenario>>
    /\ UNCHANGED presenceVars

\* the store after user 1 started call 1 in conversation 1
OneCallStarted ==
    /\ calls = {[id |-> 1, conversation_id |-> 1, started_by |-> 1,
                 started_at |-> 1, ended_at |-> NULL]}
    /\ call_participants = {[call_id |-> 1, user_id |-> 1, joined_at |-> 1,
                             left_at |-> NULL]}

ErrorInit ==
    /\ PresenceInit
    /\ OneCallStarted
    /\ now = 1
    /\ req = [p \in Procs |-> IdleReq]
    /\ resp = 0
    /\ endInfos = [c \in CallIDs |-> 0]
    /\ endNoops = [c \in CallIDs |-> 0]
    /\ endFailed = [c \in CallIDs |-> 0]
    /\ callMessages = [c \in CallIDs |-> 0]
    /\ nCallState = 0
    /\ nRequests = 0
    /\ published = NoEvent
    /\ scenario = NoScenario

\* one StartCall or JoinCall request
ErrorNext ==
    \/ \E p \in Procs, u \in Users, c \in Convs :
          nRequests = 0 /\ StartCall_IsUserInCall(p, u, c)
    \/ \E p \in Procs : StartCall_GetActive(p)
    \/ \E p \in Procs : StartCall_Write(p)
    \/ \E p \in Procs, u \in Users, id \in CallIDs :
          nRequests = 0 /\ JoinCall_Get(p, u, id)
    \/ \E p \in Procs : JoinCall_Write(p)
    \/ \E p \in Procs : Handler_LookupError(p)
    \/ \E p \in Procs : Broadcast_GetActive(p)
    \/ \E p \in Procs : Broadcast_GetParticipants(p)
    \/ \E p \in Procs : Broadcast_Notify(p)

\* ------------------------------- SpecStatus: createCallMessage called directly
\* the CallEndInfo values createCallMessage is applied to
CallEndInfos ==
    [call_id : CallIDs, conversation_id : Convs, started_by : Users,
     participants : SUBSET Users, duration : 0..MaxDuration]

\* createCallMessage(info), called once: the status is determined, the message
\* is created and MESSAGE_CREATE is published to the conversation's participants
createCallMessage(info) ==
    /\ nRequests = 0
    /\ nRequests' = nRequests + 1
    /\ callMessages' = [callMessages EXCEPT ![info.call_id] = @ + 1]
    /\ published' = MessageCreateEvent(info)
    /\ UNCHANGED <<calls, call_participants, now, req, resp, endInfos, endNoops,
                   endFailed, nCallState, scenario>>
    /\ UNCHANGED presenceVars

StatusNext == \E info \in CallEndInfos : createCallMessage(info)

\* ------------------------------- ready state: Provider.GetReadyState, enrichment
RECURSIVE SortedSeq(_)
\* the rows of a query in the order of its ORDER BY, the ids standing for the sort key
SortedSeq(S) ==
    IF S = {} THEN <<>>
    ELSE LET m == CHOOSE x \in S : \A y \in S : x <= y
         IN  <<m>> \o SortedSeq(S \ {m})

Min(a, b) == IF a <= b THEN a ELSE b

\* a row of users as the queries select it
User(id) == [id |-> id, status |-> userStatus[id]]

\* friend_requests WHERE status = 'accepted' AND (from_user_id = $1 OR
\* to_user_id = $1), the other side of each row
FriendIDs(userID) ==
    {IF r.from_user_id = userID THEN r.to_user_id ELSE r.from_user_id :
        r \in {x \in friend_requests :
                 /\ x.status = "accepted"
                 /\ (x.from_user_id = userID \/ x.to_user_id = userID)}}

GetFriends(userID) ==
    LET ids == SortedSeq(FriendIDs(userID))
    IN  [i \in DOMAIN ids |-> [user |-> User(ids[i])]]

\* friend_requests WHERE to_user_id = $1 AND status = 'pending', with the sender
GetIncomingRequests(userID) ==
    LET ids == SortedSeq({r.from_user_id : r \in {x \in friend_requests :
                            x.to_user_id = userID /\ x.status = "pending"}})
    IN  [i \in DOMAIN ids |-> [user |-> User(ids[i])]]

\* friend_requests WHERE from_user_id = $1 AND status = 'pending', with the receiver
GetOutgoingRequests(userID) ==
    LET ids == SortedSeq({r.to_user_id : r \in {x \in friend_requests :
                            x.from_user_id = userID /\ x.status = "pending"}})
    IN  [i \in DOMAIN ids |-> [user |-> User(ids[i])]]

\* conversations JOIN conversation_participants WHERE cp.user_id = $1, each
\* with the users of its participants
GetUserConversations(userID) ==
    LET ids == SortedSeq({r.conversation_id : r \in {x \in conversation_participants :
                                                       x.user_id = userID}})
    IN  [i \in DOMAIN ids |->
            LET ps == SortedSeq(GetParticipantIDs(ids[i]))
            IN  [id |-> ids[i], participants |-> [j \in DOMAIN ps |-> User(ps[j])]]]

\* the mutant: the calls of every conversation
GetActiveCallsForConversations_All(conversationIDs) ==
    {[id |-> c.id, conversation_id |-> c.conversation_id, started_at |-> c.started_at,
      participants |-> GetActiveParticipants(c.id)] :
        c \in {x \in calls : x.ended_at = NULL}}

\* calls WHERE conversation_id = ANY($1) AND ended_at IS NULL, each with its
\* call_participants WHERE left_at IS NULL; no query for an empty id list
GetActiveCallsForConversations(conversationIDs) ==
    IF conversationIDs = {} THEN {}
    ELSE {[id |-> c.id, conversation_id |-> c.conversation_id,
           started_at |-> c.started_at,
           participants |-> GetActiveParticipants(c.id)] :
             c \in {x \in calls : /\ x.conversation_id \in conversationIDs
                                  /\ x.ended_at = NULL}}

\* call.StartedAt.Format("2006-01-02T15:04:05Z07:00")
FormatTime(t) == <<"RFC3339", t>>

\* models.ActiveCallInfo of a call
ActiveCallInfo(call) ==
    [call_id |-> call.id, conversation_id |-> call.conversation_id,
     participants |-> call.participants, started_at |-> FormatTime(call.started_at)]

\* how a query of the aggregation ends: without error; or with an error,
\* after `rows` rows were read when the error is the rows.Err() that the
\* friends queries return together with the rows read
Outcome == [err : BOOLEAN, rows : 0..MaxRows]

QueryOK == [err |-> FALSE, rows |-> 0]

ListFetches == {"friends", "incoming", "outgoing"}

Fetches == ListFetches \cup {"conversations", "activeCalls"}

\* the outcomes of the six fetches of one aggregation; rows matters only for
\* a failed query that returns rows with its error
Outcomes ==
    {o \in [{"user"} \cup Fetches -> Outcome] :
        \A f \in DOMAIN o : (~o[f].err \/ f \notin ListFetches) => o[f].rows = 0}

\* what GetFriends, GetIncomingRequests and GetOutgoingRequests return: the
\* list; nil with the error of Query or Scan; the rows read so far with rows.Err()
RowsRead(list, o) ==
    IF o.err THEN SubSeq(list, 1, Min(o.rows, Len(list))) ELSE list

\* what GetUserConversations and GetActiveCallsForConversations return: the
\* result, or nil with the error
AllOrNothing(result, o, nothing) == IF o.err THEN nothing ELSE result

\* the mutant: a failed user fetch is passed over like the others
GetReadyState_UserBestEffort(userID, o) ==
    [err |-> "none",
     state |-> [user |-> User(userID), friends |-> <<>>, incoming_requests |-> <<>>,
                outgoing_requests |-> <<>>, conversations |-> <<>>, active_calls |-> {}],
     fetched |-> {"user"}]

\* Provider.GetReadyState: the user fetch decides, every other error is
\* dropped and a nil list replaced by the empty one
GetReadyState(userID, o) ==
    IF o["user"].err
    THEN [err |-> "error", state |-> NULL, fetched |-> {"user"}]
    ELSE LET conversations == AllOrNothing(GetUserConversations(userID),
                                           o["conversations"], <<>>)
             conversationIDs == {conversations[i].id : i \in DOMAIN conversations}
             activeCalls == IF Len(conversations) > 0
                            THEN AllOrNothing(GetActiveCallsForConversations(conversationIDs),
                                              o["activeCalls"], {})
                            ELSE {}
         IN  [err |-> "none",
              state |-> [user |-> User(userID),
                         friends |-> RowsRead(GetFriends(userID), o["friends"]),
                         incoming_requests |->
                             RowsRead(GetIncomingRequests(userID), o["incoming"]),
                         outgoing_requests |->
                             RowsRead(GetOutgoingRequests(userID), o["outgoing"]),
                         conversations |-> conversations,
                         active_calls |-> {ActiveCallInfo(c) : c \in activeCalls}],
              fetched |-> {"user", "friends", "incoming", "outgoing", "conversations"}
                              \cup IF Len(conversations) > 0 THEN {"activeCalls"} ELSE {}]

\* the mutant: the status of storage is kept for a user who is online
PresenceStatus_KeepStored(m, user) ==
    IF IsOnline(m, user.id) THEN user.status ELSE "offline"

\* if n.IsOnline(id) { Status = "online" } else { Status = "offline" }
PresenceStatus(m, user) == IF IsOnline(m, user.id) THEN "online" ELSE "offline"

\* the two enrichment loops of the OnSubscribe handler
Enrich(state, m) ==
    LET enrichUser(u) == [u EXCEPT !.status = PresenceStatus(m, u)]
        enrichFriend(f) == [f EXCEPT !.user = enrichUser(f.user)]
        enrichConv(c) == [c EXCEPT !.participants =
                             [j \in DOMAIN c.participants |-> enrichUser(c.participants[j])]]
    IN  [state EXCEPT
            !.friends = [i \in DOMAIN state.friends |-> enrichFriend(state.friends[i])],
            !.conversations = [i \in DOMAIN state.conversations |->
                                  enrichConv(state.conversations[i])]]

\* ------------------- SpecReady: one ready state built over a store and a tracker
\* friend_requests: UNIQUE(from_user_id, to_user_id), CHECK (from_user_id !=
\* to_user_id), and SendRequest leaves one row for two users
FriendTables ==
    {T \in SUBSET [from_user_id : Users, to_user_id : Users,
                   status : {"pending", "accepted"}] :
        /\ \A r \in T : r.from_user_id /= r.to_user_id
        /\ \A r1, r2 \in T :
              r1 /= r2 => {r1.from_user_id, r1.to_user_id} /= {r2.from_user_id, r2.to_user_id}}

\* what the column users.status holds
StoredStatuses == {[u \in Users |-> st] : st \in {"online", "offline"}}

\* the state after the users of S connected, one client each, in the order of their ids
OnlineInit(S) ==
    /\ onlineUsers = [u \in S |-> 1]
    /\ lastCall = IF S = {} THEN NoCall
                  ELSE LET last == CHOOSE u \in S : \A v \in S : v <= u
                       IN  [op |-> "add", user |-> last,
                            before |-> [u \in S \ {last} |-> 1], ret |-> TRUE]
    /\ clientState = [c \in Clients |->
                         IF c \in S THEN [st |-> "connected", user |-> c, edge |-> FALSE]
                         ELSE [st |-> "new", user |-> NULL, edge |-> FALSE]]
    /\ notifyStarted = [u \in Users |->
                           [st \in {"online", "offline"} |->
                               IF u \in S /\ st = "online" THEN 1 ELSE 0]]
    /\ nConnects = [u \in Users |-> IF u \in S THEN 1 ELSE 0]
    /\ nDisconnects = [u \in Users |-> 0]
    /\ edgesUp = [u \in Users |-> IF u \in S THEN 1 ELSE 0]
    /\ edgesDown = [u \in Users |-> 0]

\* the call of a conversation: none, one that is live with every participant
\* of the conversation in it but the last, who left, or one that has ended
CallOf(conv, state) ==
    IF state = "none" THEN {}
    ELSE {[id |-> conv, conversation_id |-> conv,
           started_by |-> CHOOSE u \in GetParticipantIDs(conv) :
                             \A v \in GetParticipantIDs(conv) : u <= v,
           started_at |-> 1, ended_at |-> IF state = "ended" THEN 1 ELSE NULL]}

RowsOf(conv, state) ==
    LET ps == GetParticipantIDs(conv)
        last == CHOOSE u \in ps : \A v \in ps : v <= u
    IN  IF state = "none" THEN {}
        ELSE {[call_id |-> conv, user_id |-> u, joined_at |-> 1,
               left_at |-> IF state = "ended" \/ (u = last /\ Cardinality(ps) > 1)
                           THEN 1 ELSE NULL] : u \in ps}

ReadyInit ==
    /\ \E S \in SUBSET Users : OnlineInit(S)
    /\ SessionInit
    /\ friend_requests \in FriendTables
    /\ userStatus \in StoredStatuses
    /\ readyOut = NoReadyOut
    /\ fetching = NoFetching
    /\ \E cs \in [Convs \cap CallIDs -> {"none", "live", "ended"}] :
          /\ calls = UNION {CallOf(c, cs[c]) : c \in DOMAIN cs}
          /\ call_participants = UNION {RowsOf(c, cs[c]) : c \in DOMAIN cs}
          /\ endInfos = [c \in CallIDs |-> IF c \in DOMAIN cs /\ cs[c] = "ended" THEN 1 ELSE 0]
          /\ callMessages = [c \in CallIDs |->
                                IF c \in DOMAIN cs /\ cs[c] = "ended" THEN 1 ELSE 0]
    /\ now = 1
    /\ req = [p \in Procs |-> IdleReq]
    /\ resp = 0
    /\ endNoops = [c \in CallIDs |-> 0]
    /\ endFailed = [c \in CallIDs |-> 0]
    /\ nCallState = 0
    /\ nRequests = 0
    /\ published = NoEvent
    /\ scenario = NoScenario

\* OnSubscribe, from GetReadyState to the end of the enrichment, for user userID
BuildReadyState(userID, o) ==
    /\ readyOut = NoReadyOut
    /\ LET r == GetReadyState(userID, o)
       IN  readyOut' = [user |-> userID, outcomes |-> o, err |-> r.err,
                        fetched |-> r.fetched, loaded |-> r.state,
                        ready |-> IF r.err = "none" THEN Enrich(r.state, onlineUsers)
                                  ELSE NULL]
    /\ UNCHANGED <<friend_requests, userStatus, fetching>>
    /\ UNCHANGED <<onlineUsers, lastCall, clientState, notifyStarted, nConnects,
                   nDisconnects, edgesUp, edgesDown>>
    /\ UNCHANGED <<credentials, lastConnect, sub, lastSubscribe, nSubscribes, nReadyLoads,
                   lastLoad, readyVars>>
    /\ UNCHANGED <<callVars, publishVars>>

ReadyNext == \E userID \in Users, o \in Outcomes : BuildReadyState(userID, o)

\* --------------- SpecAggregate: the goroutine of GetReadyState, fetch by fetch
\* the fetches in the order of the statements of the goroutine
FetchOrder == <<"user", "friends", "incoming", "outgoing", "conversations", "activeCalls">>

\* the fetches whose statements come before that of f
FetchesBefore(f) ==
    {FetchOrder[j] : j \in {i \in DOMAIN FetchOrder :
                              \E k \in DOMAIN FetchOrder : FetchOrder[k] = f /\ i < k}}

\* if len(r.conversations) > 0: the active calls are fetched only then
WantsFetch(f) ==
    f = "activeCalls" =>
        /\ "conversations" \notin fetching.failed
        /\ GetUserConversations(fetching.user) /= <<>>

\* the frame of the steps of the goroutine
AggregateFrame ==
    /\ UNCHANGED <<friend_requests, userStatus, readyOut>>
    /\ UNCHANGED <<onlineUsers, lastCall, clientState, notifyStarted, nConnects,
                   nDisconnects, edgesUp, edgesDown>>
    /\ UNCHANGED <<credentials, lastConnect, sub, lastSubscribe, nSubscribes, nReadyLoads,
                   lastLoad, readyVars>>
    /\ UNCHANGED <<callVars, publishVars>>

\* GetReadyState(ctx, userID): ch := make(chan result, 1); go func() { ... }()
Aggregate_Go(userID) ==
    /\ fetching = NoFetching
    /\ fetching' = [NoFetching EXCEPT !.user = userID, !.result = "pending"]
    /\ AggregateFrame

\* the goroutine reaches the statement of fetch f and calls the repository: every
\* statement before it has returned, and the user fetch has not failed
Aggregate_Start(f) ==
    /\ fetching.result = "pending"
    /\ f \notin fetching.started
    /\ FetchesBefore(f) \cap {g \in Fetches \cup {"user"} : WantsFetch(g)}
          \subseteq fetching.returned
    /\ "user" \notin fetching.failed
    /\ WantsFetch(f)
    /\ fetching' = [fetching EXCEPT !.started = @ \cup {f}]
    /\ AggregateFrame

\* the repository call of fetch f returns, with or without an error
Aggregate_Fetched(f, ok) ==
    /\ fetching.result = "pending"
    /\ f \in fetching.started \ fetching.returned
    /\ fetching' = [fetching EXCEPT !.returned = @ \cup {f},
                                    !.failed = IF ok THEN @ ELSE @ \cup {f}]
    /\ AggregateFrame

\* ch <- r; r := <-ch; return: after a failed user fetch or after the last fetch
Aggregate_Result ==
    /\ fetching.result = "pending"
    /\ fetching.started = fetching.returned
    /\ \/ "user" \in fetching.failed
       \/ {g \in Fetches \cup {"user"} : WantsFetch(g)} \subseteq fetching.returned
    /\ fetching' = [fetching EXCEPT
                       !.result = IF "user" \in fetching.failed THEN "error" ELSE "ready"]
    /\ AggregateFrame

AggregateNext ==
    \/ \E userID \in Users : Aggregate_Go(userID)
    \/ \E f \in Fetches \cup {"user"} : Aggregate_Start(f)
    \/ \E f \in Fetches \cup {"user"}, ok \in BOOLEAN : Aggregate_Fetched(f, ok)
    \/ Aggregate_Result

\* ------------------- SpecSession: handshake, subscription and the READY event
\* a connection token as the handshake sees it: the empty string, a string that
\* is no JWT, or a JWT with its signing method, its signing key, whether its
\* exp claim lies before the time of validation, and its user_id claim
NoJWT == {[form |-> f, alg |-> "none", key |-> "none", expired |-> FALSE, user |-> NULL] :
             f \in {"empty", "malformed"}}

Tokens == NoJWT \cup [form : {"jwt"}, alg : {"HMAC", "RSA"}, key : {"jwtSecret", "other"},
                      expired : BOOLEAN, user : Users]

\* the mutant: the expiry of the token is not looked at
ValidateAccessToken_IgnoreExpiry(token) ==
    IF token.form /= "jwt" \/ token.alg /= "HMAC" \/ token.key /= "jwtSecret"
    THEN [err |-> "ErrInvalidToken", claims |-> NULL]
    ELSE [err |-> "none", claims |-> [UserID |-> token.user]]

\* jwt.ParseWithClaims with the key function that accepts HMAC methods only and
\* hands out jwtSecret; an expired token gives ErrExpiredToken, every other
\* failure ErrInvalidToken
ValidateAccessToken(token) ==
    IF token.form /= "jwt" THEN [err |-> "ErrInvalidToken", claims |-> NULL]
    ELSE IF token.alg /= "HMAC" THEN [err |-> "ErrInvalidToken", claims |-> NULL]
    ELSE IF token.key /= "jwtSecret" THEN [err |-> "ErrInvalidToken", claims |-> NULL]
    ELSE IF token.expired THEN [err |-> "ErrExpiredToken", claims |-> NULL]
    ELSE [err |-> "none", claims |-> [UserID |-> token.user]]

\* uuid.UUID.String and uuid.Parse
UUIDString(u) == <<"uuid", u>>

UUIDParse(str) == IF Len(str) = 2 /\ str[1] = "uuid" THEN str[2] ELSE NULL

\* "user:" + id
UserChannel(str) == <<"user:">> \o str

\* the channels a client asks for: the personal channel of some user, another
\* channel that carries a user id, and the bare prefix
Channels == {<<pfx>> \o UUIDString(u) : pfx \in {"user:", "conversation:"}, u \in Users}
                \cup {<<"user:">>}

\* the mutant: any personal channel passes
SubscribeAllowed_AnyUserChannel(channel, clientUserID) ==
    Len(channel) = 3 /\ channel[1] = "user:"

\* e.Channel == "user:" + client.UserID()
SubscribeAllowed(channel, clientUserID) == channel = UserChannel(clientUserID)

\* the OnConnecting handler: the empty token and the token that does not
\* validate are answered with DisconnectInvalidToken, the valid one with the
\* credentials of its user
OnConnecting(c, token) ==
    /\ clientState[c].st = "new"
    /\ LET v == ValidateAccessToken(token)
           refused == token.form = "empty" \/ v.err /= "none"
       IN  /\ clientState' = [clientState EXCEPT ![c].st =
                                 IF refused THEN "refused" ELSE "authenticated"]
           /\ credentials' = [credentials EXCEPT ![c] =
                                 IF refused THEN <<>> ELSE UUIDString(v.claims.UserID)]
           /\ lastConnect' = [client |-> c, token |-> token,
                              reply |-> IF refused THEN "DisconnectInvalidToken" ELSE "ok"]
    /\ UNCHANGED <<onlineUsers, lastCall, notifyStarted, nConnects, nDisconnects,
                   edgesUp, edgesDown>>
    /\ UNCHANGED <<sub, lastSubscribe, nSubscribes, nReadyLoads, lastLoad, readyVars>>
    /\ UNCHANGED <<callVars, storeVars, publishVars>>

\* the OnConnect handler of a client that passed the handshake:
\* userID, err := uuid.Parse(client.UserID()); if err != nil { return }
OnConnect_Authenticated(c) ==
    /\ clientState[c].st = "authenticated"
    /\ UUIDParse(credentials[c]) /= NULL
    /\ OnConnectAs(c, UUIDParse(credentials[c]))

\* OnSubscribe, the channel check: a channel other than the client's own is
\* answered with ErrorPermissionDenied and the handler returns
OnSubscribe(c, channel) ==
    /\ clientState[c].st = "connected"
    /\ sub[c].pc = "idle"
    /\ nSubscribes < MaxSubscribes
    /\ nSubscribes' = nSubscribes + 1
    /\ IF SubscribeAllowed(channel, credentials[c])
       THEN /\ sub' = [sub EXCEPT ![c].pc = "load", ![c].channel = channel, ![c].n = @ + 1]
            /\ UNCHANGED lastSubscribe
       ELSE /\ sub' = [sub EXCEPT ![c].channel = channel, ![c].n = @ + 1]
            /\ lastSubscribe' = [client |-> c, channel |-> channel,
                                 reply |-> "ErrorPermissionDenied"]
    /\ UNCHANGED <<onlineUsers, lastCall, clientState, notifyStarted, nConnects,
                   nDisconnects, edgesUp, edgesDown>>
    /\ UNCHANGED <<credentials, lastConnect, nReadyLoads, lastLoad, readyVars>>
    /\ UNCHANGED <<callVars, storeVars, publishVars>>

\* readyState, err := n.dataProvider.GetReadyState(ctx, userID); an error is
\* answered with ErrorInternal and the handler returns
OnSubscribe_GetReadyState(c, o) ==
    /\ sub[c].pc = "load"
    /\ nReadyLoads' = nReadyLoads + 1
    /\ LET r == GetReadyState(clientState[c].user, o)
       IN  lastLoad' = [client |-> c, request |-> sub[c].n, userFailed |-> o["user"].err,
                        err |-> r.err, fetched |-> r.fetched]
    /\ IF GetReadyState(clientState[c].user, o).err = "none"
       THEN /\ sub' = [sub EXCEPT ![c].pc = "go"]
            /\ UNCHANGED lastSubscribe
       ELSE /\ sub' = [sub EXCEPT ![c].pc = "idle"]
            /\ lastSubscribe' = [client |-> c, channel |-> sub[c].channel,
                                 reply |-> "ErrorInternal"]
    /\ UNCHANGED <<onlineUsers, lastCall, clientState, notifyStarted, nConnects,
                   nDisconnects, edgesUp, edgesDown>>
    /\ UNCHANGED <<credentials, lastConnect, nSubscribes, readyVars>>
    /\ UNCHANGED <<callVars, storeVars, publishVars>>

\* the mutant: no goroutine is started
GoReady_Nothing(pending, k) == pending

\* go func() { ... }(): one more goroutine, for subscribe request k
GoReady(pending, k) == pending \cup {k}

\* the READY goroutine is started before the reply is given
OnSubscribe_GoReady(c) ==
    /\ sub[c].pc = "go"
    /\ readyPending' = [readyPending EXCEPT ![c] = GoReady(@, sub[c].n)]
    /\ sub' = [sub EXCEPT ![c].pc = "ack"]
    /\ UNCHANGED <<onlineUsers, lastCall, clientState, notifyStarted, nConnects,
                   nDisconnects, edgesUp, edgesDown>>
    /\ UNCHANGED <<credentials, lastConnect, lastSubscribe, nSubscribes, nReadyLoads,
                   lastLoad, readyPublished, readyFailed, readyChannels>>
    /\ UNCHANGED <<callVars, storeVars, publishVars>>

\* cb(centrifuge.SubscribeReply{}, nil)
OnSubscribe_Ack(c) ==
    /\ sub[c].pc = "ack"
    /\ sub' = [sub EXCEPT ![c].pc = "idle", ![c].acks = @ + 1,
                          ![c].accepted = @ \cup {sub[c].n}]
    /\ lastSubscribe' = [client |-> c, channel |-> sub[c].channel, reply |-> "ok"]
    /\ UNCHANGED <<onlineUsers, lastCall, clientState, notifyStarted, nConnects,
                   nDisconnects, edgesUp, edgesDown>>
    /\ UNCHANGED <<credentials, lastConnect, nSubscribes, nReadyLoads, lastLoad, readyVars>>
    /\ UNCHANGED <<callVars, storeVars, publishVars>>

\* channel := "user:" + userID.String()
PublishChannel_Shared(userID) == UserChannel(UUIDString(CHOOSE u \in Users : TRUE))

PublishChannel(userID) == UserChannel(UUIDString(userID))

\* the READY goroutine of subscribe request k of client c, after
\* time.Sleep(10ms), which orders it with nothing: n.PublishToUser(userID,
\* "READY", readyState) is called once, and a failure is logged
PublishReady(c, k, ok) ==
    /\ k \in readyPending[c]
    /\ readyPending' = [readyPending EXCEPT ![c] = @ \ {k}]
    /\ IF ok
       THEN /\ readyPublished' = [readyPublished EXCEPT ![c][k] = @ + 1]
            /\ readyChannels' = readyChannels \cup
                                    {<<PublishChannel(clientState[c].user), clientState[c].user>>}
            /\ UNCHANGED readyFailed
       ELSE /\ readyFailed' = [readyFailed EXCEPT ![c] = @ \cup {k}]
            /\ UNCHANGED <<readyPublished, readyChannels>>
    /\ UNCHANGED <<onlineUsers, lastCall, clientState, notifyStarted, nConnects,
                   nDisconnects, edgesUp, edgesDown>>
    /\ UNCHANGED <<credentials, lastConnect, sub, lastSubscribe, nSubscribes, nReadyLoads,
                   lastLoad>>
    /\ UNCHANGED <<callVars, storeVars, publishVars>>

\* the fetch outcomes tried in a session: the user fetch fails or not, the
\* other fetches all fail or all succeed
SessionOutcomes ==
    {[f \in {"user"} \cup Fetches |->
         [err |-> IF f = "user" THEN userFails ELSE othersFail, rows |-> 0]] :
       userFails \in BOOLEAN, othersFail \in BOOLEAN}

\* the clients that take part in the handshake
SessionClients == 1..MaxSessions

SessionNext ==
    \/ \E c \in SessionClients, token \in Tokens : OnConnecting(c, token)
    \/ \E c \in SessionClients : OnConnect_Authenticated(c)
    \/ \E c \in SessionClients : OnConnectNotify(c)
    \/ \E c \in SessionClients, channel \in Channels : OnSubscribe(c, channel)
    \/ \E c \in SessionClients, o \in SessionOutcomes : OnSubscribe_GetReadyState(c, o)
    \/ \E c \in SessionClients : OnSubscribe_GoReady(c)
    \/ \E c \in SessionClients : OnSubscribe_Ack(c)
    \/ \E c \in SessionClients, k \in Requests, ok \in BOOLEAN : PublishReady(c, k, ok)
    \/ \E c \in SessionClients : OnDisconnect(c)
    \/ \E c \in SessionClients : OnDisconnectNotify(c)

\* ------------------------- SpecPublish: the fan-out publisher called directly
\* json.Marshal and the subscriber's json.Unmarshal
JSONMarshal(v) == <<"json", v>>

JSONUnmarshal(b) == IF Len(b) = 2 /\ b[1] = "json" THEN b[2] ELSE NULL

\* map[string]interface{}{"type": eventType, "data": data}
Envelope(eventType, data) == [type |-> eventType, data |-> data]

\* n.node.Publish(channel, payload): the message is on the channel, or an error
NodePublish(w, channel, payload, ok) ==
    IF ok THEN [wire |-> MapPut(w, <<channel, payload>>, MapGet(w, <<channel, payload>>) + 1),
                err |-> FALSE]
    ELSE [wire |-> w, err |-> TRUE]

\* the mutant: the channel is named after the event
PublishToUser_ChannelPerEvent(w, userID, eventType, data, ok) ==
    NodePublish(w, <<"user:", eventType, userID>>, JSONMarshal(Envelope(eventType, data)), ok)

\* Node.PublishToUser
PublishToUser(w, userID, eventType, data, ok) ==
    NodePublish(w, PublishChannel(userID), JSONMarshal(Envelope(eventType, data)), ok)

RECURSIVE PublishLoop_StopOnError(_, _, _, _, _, _)
\* the mutant: the loop ends at the first failure
PublishLoop_StopOnError(st, userIDs, eventType, data, fails, i) ==
    IF i > Len(userIDs) THEN st
    ELSE LET r == PublishToUser(st.wire, userIDs[i], eventType, data, i \notin fails)
             next == [wire |-> r.wire,
                      attempts |-> Append(st.attempts, [userID |-> userIDs[i], err |-> r.err])]
         IN  IF r.err THEN next
             ELSE PublishLoop_StopOnError(next, userIDs, eventType, data, fails, i + 1)

RECURSIVE PublishLoop(_, _, _, _, _, _)
\* for _, userID := range userIDs { if err := n.PublishToUser(...); err != nil { log } }
\* from position i on; the publish at the positions in fails returns an error
PublishLoop(st, userIDs, eventType, data, fails, i) ==
    IF i > Len(userIDs) THEN st
    ELSE LET r == PublishToUser(st.wire, userIDs[i], eventType, data, i \notin fails)
         IN  PublishLoop([wire |-> r.wire,
                          attempts |-> Append(st.attempts,
                                              [userID |-> userIDs[i], err |-> r.err])],
                         userIDs, eventType, data, fails, i + 1)

\* Node.PublishToUsers
PublishToUsers(w, userIDs, eventType, data, fails) ==
    PublishLoop([wire |-> w, attempts |-> <<>>], userIDs, eventType, data, fails, 1)

\* the arguments tried: two event types, two payloads, every recipient list
\* of up to MaxRecipients ids, repeated ids included
EventTypes == {"CALL_STATE", "MESSAGE_CREATE"}

Payloads == {[conversation_id |-> 1, call_id |-> id] : id \in {NULL, 1}}

RecipientLists == UNION {[1..n -> Users] : n \in 0..MaxRecipients}

PublishFrame ==
    /\ UNCHANGED <<onlineUsers, lastCall, clientState, notifyStarted, nConnects,
                   nDisconnects, edgesUp, edgesDown>>
    /\ UNCHANGED <<credentials, lastConnect, sub, lastSubscribe, nSubscribes, nReadyLoads,
                   lastLoad, readyVars, storeVars>>
    /\ UNCHANGED presenceSent
    /\ UNCHANGED callVars

CallPublishToUser(userID, eventType, data, ok) ==
    /\ nPublishes < MaxPublishes
    /\ nPublishes' = nPublishes + 1
    /\ LET r == PublishToUser(wire, userID, eventType, data, ok)
       IN  /\ wire' = r.wire
           /\ lastPublish' = [fn |-> "PublishToUser", userIDs |-> <<userID>>,
                              type |-> eventType, data |-> data,
                              fails |-> IF ok THEN {} ELSE {1},
                              attempts |-> <<[userID |-> userID, err |-> r.err]>>]
    /\ PublishFrame

CallPublishToUsers(userIDs, eventType, data, fails) ==
    /\ nPublishes < MaxPublishes
    /\ nPublishes' = nPublishes + 1
    /\ LET r == PublishToUsers(wire, userIDs, eventType, data, fails)
       IN  /\ wire' = r.wire
           /\ lastPublish' = [fn |-> "PublishToUsers", userIDs |-> userIDs,
                              type |-> eventType, data |-> data, fails |-> fails,
                              attempts |-> r.attempts]
    /\ PublishFrame

PublishNext ==
    \/ \E userID \in Users, eventType \in EventTypes, data \in Payloads, ok \in BOOLEAN :
          CallPublishToUser(userID, eventType, data, ok)
    \/ \E userIDs \in RecipientLists, eventType \in EventTypes, data \in Payloads :
          \E fails \in SUBSET DOMAIN userIDs :
              CallPublishToUsers(userIDs, eventType, data, fails)

\* ------------------------- SpecNotify: notifyPresenceChange called directly
\* friends.Repository.GetFriendIDs: the ids, or the ids read so far with the error
GetFriendIDs(userID, o) ==
    [ids |-> RowsRead(SortedSeq(FriendIDs(userID)), o), err |-> o.err]

\* &models.PresenceUpdateEvent{UserID: userID, Status: status}
PresenceUpdateEvent(userID, status) == [user_id |-> userID, status |-> status]

\* the mutant: the ids read before the error are notified
NotifyRecipients_Partial(lookup) == lookup.ids

\* if err != nil { log; return }: nobody is notified after a failed lookup
NotifyRecipients(lookup) == IF lookup.err THEN <<>> ELSE lookup.ids

\* Node.notifyPresenceChange, the body of the goroutine that OnConnect and
\* OnDisconnect start
NotifyPublish(userID, status, o, fails) ==
    LET lookup == GetFriendIDs(userID, o)
        r == PublishToUsers(wire, NotifyRecipients(lookup), "PRESENCE_UPDATE",
                            PresenceUpdateEvent(userID, status), fails)
    IN  /\ fails \subseteq DOMAIN NotifyRecipients(lookup)
        /\ wire' = r.wire
        /\ lastPublish' = [fn |-> "notifyPresenceChange", userID |-> userID,
                           status |-> status, lookup |-> o, fails |-> fails,
                           attempts |-> r.attempts]

\* notifyPresenceChange called directly
notifyPresenceChange(userID, status, o, fails) ==
    /\ nPublishes < MaxPublishes
    /\ nPublishes' = nPublishes + 1
    /\ NotifyPublish(userID, status, o, fails)
    /\ PublishFrame

NotifyInit ==
    /\ \E S \in SUBSET Users : OnlineInit(S)
    /\ SessionInit
    /\ friend_requests \in FriendTables
    /\ userStatus = [u \in Users |-> "offline"]
    /\ readyOut = NoReadyOut
    /\ fetching = NoFetching
    /\ CallsInit

NotifyNext ==
    \E userID \in Users, status \in {"online", "offline"}, o \in Outcome :
        \E fails \in SUBSET (1..MaxUsers) :
            notifyPresenceChange(userID, status, o, fails)

\* ------- SpecOrder: the connection lifecycle with its notification goroutines
\* a goroutine started by `go n.notifyPresenceChange(userID, status)` runs: the
\* lookup and the publishes succeed
Notify_Run(userID, status) ==
    /\ notifyStarted[userID][status] > presenceSent.ran[userID][status]
    /\ NotifyPublish(userID, status, QueryOK, {})
    /\ presenceSent' =
          [ran |-> [presenceSent.ran EXCEPT ![userID][status] = @ + 1],
           last |-> [presenceSent.last EXCEPT ![userID] =
                        [f \in Users |-> IF f \in FriendIDs(userID) THEN status ELSE @[f]]]]
    /\ UNCHANGED <<onlineUsers, lastCall, clientState, notifyStarted, nConnects,
                   nDisconnects, edgesUp, edgesDown>>
    /\ UNCHANGED <<credentials, lastConnect, sub, lastSubscribe, nSubscribes, nReadyLoads,
                   lastLoad, readyVars, storeVars, nPublishes>>
    /\ UNCHANGED callVars

OrderNext ==
    \/ \E c \in SessionClients, u \in Users : OnConnect(c, u)
    \/ \E c \in SessionClients : OnConnectNotify(c)
    \/ \E c \in SessionClients : OnDisconnect(c)
    \/ \E c \in SessionClients : OnDisconnectNotify(c)
    \/ \E u \in Users, status \in {"online", "offline"} : Notify_Run(u, status)

\* ------------------------------------------------------------ specifications
vars == <<presenceVars, callVars>>

Init == PresenceInit /\ CallsInit

SpecTracker == Init /\ [][TrackerNext]_vars

SpecPresence == Init /\ [][PresenceNext]_vars

SpecCalls == Init /\ [][CallsNext]_vars

SpecLeave == LeaveInit /\ [][LeaveNext]_vars

SpecSeq == Init /\ [][SeqNext]_vars

SpecStatus == Init /\ [][StatusNext]_vars

SpecSession == Init /\ [][SessionNext]_vars

SpecReady == ReadyInit /\ [][ReadyNext]_vars

SpecPublish == Init /\ [][PublishNext]_vars

SpecNotify == NotifyInit /\ [][NotifyNext]_vars

SpecFanout == Init /\ [][FanoutNext]_vars

SpecAggregate == Init /\ [][AggregateNext]_vars

SpecCount == LeaveInit /\ [][CountNext]_vars

SpecError == ErrorInit /\ [][ErrorNext]_vars

SpecOrder == Init /\ [][OrderNext]_vars

\* a READY goroutine that was started wakes up after its sleep and runs
ReadyFairness ==
    \A c \in SessionClients, k \in Requests :
        WF_vars(\E ok \in BOOLEAN : PublishReady(c, k, ok))

SpecSessionFair == Init /\ [][SessionNext]_vars /\ ReadyFairness

Spec == SpecCalls


\* =================================================== presence tracker claims
\* clients of user u inside a handler with the edge flag set, not yet acted on
PendingEdge(u, st) ==
    Cardinality({c \in Clients : /\ clientState[c].st = st
                                 /\ clientState[c].user = u
                                 /\ clientState[c].edge})

\* clients of user u whose connection is registered in the tracker
LiveClients(u) ==
    {c \in Clients : clientState[c].user = u /\ clientState[c].st \in {"added", "connected"}}

\* C1: for every user, IsOnline is true exactly when the number of connects so
\* far minus the number of disconnects so far is greater than 0, in every
\* interleaving in which each disconnect follows its own connect.
C1_IsOnlineIsConnectsMinusDisconnects ==
    \A u \in Users : IsOnline(onlineUsers, u) <=> (nConnects[u] - nDisconnects[u] > 0)

C1_Witness ==
    \E u \in Users : /\ nConnects[u] >= 2
                     /\ nDisconnects[u] = 1
                     /\ IsOnline(onlineUsers, u)
                     /\ \E v \in Users : nDisconnects[v] = nConnects[v] /\ nConnects[v] = 1
                                         /\ ~IsOnline(onlineUsers, v)

\* C2: a presence notification is started exactly once per 0->1 transition of a
\* user's count (status online) and once per 1->0 transition (status offline),
\* and never for a connect or disconnect that does not cross the boundary: the
\* notifications started plus those a handler is about to start equal the edges.
C2_NotifyOncePerEdge ==
    \A u \in Users :
        /\ notifyStarted[u]["online"] + PendingEdge(u, "added") = edgesUp[u]
        /\ notifyStarted[u]["offline"] + PendingEdge(u, "removed") = edgesDown[u]

C2_Witness ==
    \E u \in Users : /\ nConnects[u] = 3
                     /\ nDisconnects[u] = 3
                     /\ \A c \in Clients : clientState[c].st = "closed"
                     /\ notifyStarted[u]["online"] = 1
                     /\ notifyStarted[u]["offline"] = 1

\* C3: addOnlineUser increments the user's count by exactly one, leaves every
\* other entry alone, and returns true iff the count was 0 (or the user absent)
\* immediately before the increment.
C3_ConnectIncrementsAndReportsEdge ==
    lastCall.op = "add" =>
        /\ MapGet(onlineUsers, lastCall.user) = MapGet(lastCall.before, lastCall.user) + 1
        /\ \A v \in Users \ {lastCall.user} :
               MapGet(onlineUsers, v) = MapGet(lastCall.before, v)
        /\ lastCall.ret = (MapGet(lastCall.before, lastCall.user) = 0)

C3_Witness ==
    /\ lastCall.op = "add"
    /\ MapGet(lastCall.before, lastCall.user) = 2
    /\ lastCall.ret = FALSE
    /\ onlineUsers[lastCall.user] = 3

\* C4: removeOnlineUser on a user whose count is n >= 1 decrements the count; if
\* the result is <= 0 the entry is removed and true is returned, otherwise the
\* entry stays with count n-1 and false is returned.
C4_DisconnectDecrements ==
    (lastCall.op = "remove" /\ MapGet(lastCall.before, lastCall.user) >= 1) =>
        LET n == MapGet(lastCall.before, lastCall.user)
        IN  IF n - 1 <= 0
            THEN lastCall.user \notin DOMAIN onlineUsers /\ lastCall.ret = TRUE
            ELSE /\ lastCall.user \in DOMAIN onlineUsers
                 /\ onlineUsers[lastCall.user] = n - 1
                 /\ lastCall.ret = FALSE

C4_Witness ==
    /\ lastCall.op = "remove"
    /\ MapGet(lastCall.before, lastCall.user) = 2
    /\ MapGet(onlineUsers, lastCall.user) = 1
    /\ lastCall.ret = FALSE

\* C5: removeOnlineUser for a user that has no entry in the presence map is a
\* no-op: the map is unchanged and the returned value is false.
C5_AbsentDisconnectIsNoop ==
    (lastCall.op = "remove" /\ lastCall.user \notin DOMAIN lastCall.before) =>
        /\ onlineUsers = lastCall.before
        /\ lastCall.ret = FALSE

\* C6: outside a critical section no key of the presence map maps to a count
\* <= 0, and an entry exists for a user iff the user has at least one live
\* connection (its count being the number of live connections).
C6_NoNonPositiveEntry ==
    \A u \in Users :
        /\ u \in DOMAIN onlineUsers => onlineUsers[u] > 0
        /\ u \in DOMAIN onlineUsers <=> LiveClients(u) /= {}
        /\ MapGet(onlineUsers, u) = Cardinality(LiveClients(u))

C6_Witness ==
    \E u, v \in Users : /\ nDisconnects[u] >= 1
                        /\ u \notin DOMAIN onlineUsers
                        /\ v \in DOMAIN onlineUsers
                        /\ onlineUsers[v] = 2


\* ======================================================= call session claims
AllIdle == \A p \in Procs : req[p].pc = "idle"

ActiveCallsOf(conv) == {c \in calls : c.conversation_id = conv /\ c.ended_at = NULL}

LiveRowsOf(callID, u) == {r \in LiveRows(callID) : r.user_id = u}

\* u has a live participant row in an active call of a conversation other than conv
InAnotherConvCall(u, conv) ==
    \E c \in calls : /\ c.ended_at = NULL
                     /\ c.conversation_id /= conv
                     /\ LiveRowsOf(c.id, u) /= {}

C8_AtMostOneActiveCall ==
    \A conv \in Convs : Cardinality(ActiveCallsOf(conv)) <= 1

\* C9: when a user who already is a live participant of a call calls StartCall
\* or JoinCall again, the number of participant rows with null left-at for that
\* (call, user) stays exactly one: no (call, user) ever has two live rows.
C9_NoDuplicateLiveRow ==
    \A c \in calls, u \in Users : Cardinality(LiveRowsOf(c.id, u)) <= 1

\* C10: a StartCall by a user who has a live participant row in an active call of
\* a different conversation fails with 409 "Already in another call" and creates
\* nothing: such a request never gets past the IsUserInCall check.
C10_InAnotherCallRejected ==
    [][\A p \in Procs :
          (req[p].pc = "idle" /\ req'[p].pc = "sc_find")
              => ~InAnotherConvCall(req'[p].user, req'[p].conv)]_vars

\* C11: a StartCall whose lookup found no active session in the conversation
\* creates exactly one new session: its end timestamp is null, its starter is
\* the caller, its live participant set is exactly {caller}, and nothing else is
\* added to the store.
C11_StartCreatesOneSession ==
    [][\A p \in Procs :
          (req[p].pc = "sc_write" /\ req[p].callID = NULL /\ req'[p] /= req[p]) =>
              \E row \in calls' \ calls :
                  /\ calls' = calls \cup {row}
                  /\ row.ended_at = NULL
                  /\ row.started_by = req[p].user
                  /\ row.conversation_id = req[p].conv
                  /\ \E r \in call_participants' \ call_participants :
                        /\ call_participants' = call_participants \cup {r}
                        /\ r.call_id = row.id /\ r.left_at = NULL
                  /\ {r.user_id : r \in {x \in call_participants' :
                          x.call_id = row.id /\ x.left_at = NULL}} = {req[p].user}]_vars

\* a conversation whose call has ended got a new call from a StartCall request
C11_Witness ==
    \E p \in Procs, c1, c2 \in calls :
        /\ c1.conversation_id = c2.conversation_id
        /\ c1.ended_at /= NULL /\ c2.ended_at = NULL
        /\ req[p].pc = "bc_call" /\ req[p].op = "start"
        /\ req[p].callID = c2.id /\ c2.started_by = req[p].user
        /\ GetActiveParticipants(c2.id) = {req[p].user}

\* C12: a StartCall whose lookup found an active session creates no new session:
\* the set of sessions is unchanged and, unless the insert is refused (500, nothing
\* written), exactly one row is added, a live participant row of the caller in
\* the session found.
C12_StartJoinsExistingSession ==
    [][\A p \in Procs :
          (req[p].pc = "sc_write" /\ req[p].callID /= NULL /\ req'[p] /= req[p]) =>
              /\ calls' = calls
              /\ IF req'[p].pc = "idle"
                 THEN resp' = 500 /\ call_participants' = call_participants
                 ELSE \E r \in call_participants' \ call_participants :
                         /\ call_participants' = call_participants \cup {r}
                         /\ r.call_id = req[p].callID /\ r.user_id = req[p].user
                         /\ r.left_at = NULL]_vars

\* a StartCall by another user than the starter joined the conversation's call
C12_Witness ==
    \E p \in Procs, c \in calls :
        /\ Cardinality(calls) = 1
        /\ req[p].pc = "bc_call" /\ req[p].op = "start" /\ req[p].callID = c.id
        /\ c.started_by /= req[p].user
        /\ c.conversation_id = req[p].conv
        /\ LiveRowsOf(c.id, req[p].user) /= {}
        /\ LiveRowsOf(c.id, c.started_by) /= {}

OthersLive(callID, u) == GetActiveParticipants(callID) \ {u}

C18_MissedIffAloneAndShort ==
    published.type = "MESSAGE_CREATE" =>
        LET content == published.data.message.content
        IN  IF Cardinality(content.participants) = 1 /\ content.duration < 5
            THEN content.status = "missed"
            ELSE content.status = "completed"

\* a call with one participant that lasted exactly 5 seconds is completed
C18_Witness ==
    /\ published.type = "MESSAGE_CREATE"
    /\ Cardinality(published.data.message.content.participants) = 1
    /\ published.data.message.content.duration = 5
    /\ published.data.message.content.status = "completed"

\* ==================================================== connection session claims
\* a token that the handshake has to accept: a JWT signed with an HMAC method
\* and the access-token secret whose expiry lies ahead
GoodToken(token) ==
    /\ token.form = "jwt"
    /\ token.alg = "HMAC"
    /\ token.key = "jwtSecret"
    /\ ~token.expired

\* C20: a connection attempt with an empty, invalid or expired token is refused
\* with the invalid-token disconnect, no identity is attached to the connection,
\* and the presence map, the connect counts and the presence notifications stay
\* as they were, at the handshake and for as long as the connection exists
C20_BadTokenIsRefused ==
    [][\A c \in Clients :
          /\ (/\ clientState[c].st = "new" /\ clientState'[c].st /= "new"
              /\ ~GoodToken(lastConnect'.token)) =>
                 /\ lastConnect'.client = c
                 /\ lastConnect'.reply = "DisconnectInvalidToken"
                 /\ clientState'[c].st = "refused"
                 /\ clientState'[c].user = NULL
                 /\ credentials'[c] = <<>>
                 /\ onlineUsers' = onlineUsers
                 /\ nConnects' = nConnects
                 /\ notifyStarted' = notifyStarted
          /\ clientState[c].st = "refused" =>
                 /\ clientState'[c] = clientState[c]
                 /\ credentials'[c] = <<>>]_vars

\* a validly signed but expired token was refused while another client of the
\* same user is online
C20_Witness ==
    /\ lastConnect.reply = "DisconnectInvalidToken"
    /\ lastConnect.token.form = "jwt"
    /\ lastConnect.token.alg = "HMAC"
    /\ lastConnect.token.key = "jwtSecret"
    /\ lastConnect.token.expired
    /\ clientState[lastConnect.client].st = "refused"
    /\ \E d \in Clients : /\ clientState[d].st = "connected"
                          /\ clientState[d].user = lastConnect.token.user
    /\ MapGet(onlineUsers, lastConnect.token.user) = 1

\* C19: a subscribe request of a connection authenticated as user U for a
\* channel other than "user:" + U is answered with permission denied, at every
\* request, and the handler loads no ready state and starts or publishes no
\* READY event
C19_ForeignChannelDenied ==
    [][\A c \in Clients :
          (/\ sub'[c].n = sub[c].n + 1
           /\ sub'[c].channel /= <<"user:", "uuid", clientState[c].user>>) =>
              /\ lastSubscribe' = [client |-> c, channel |-> sub'[c].channel,
                                   reply |-> "ErrorPermissionDenied"]
              /\ sub'[c].pc = "idle"
              /\ sub'[c].acks = sub[c].acks
              /\ nReadyLoads' = nReadyLoads
              /\ readyPending' = readyPending
              /\ readyPublished' = readyPublished
              /\ readyChannels' = readyChannels]_vars

\* a client that holds an acknowledged subscription to its own channel asked
\* for the channel of another user and was denied
C19_Witness ==
    /\ lastSubscribe.reply = "ErrorPermissionDenied"
    /\ Len(lastSubscribe.channel) = 3
    /\ lastSubscribe.channel[1] = "user:"
    /\ lastSubscribe.channel[3] /= clientState[lastSubscribe.client].user
    /\ sub[lastSubscribe.client].acks = 1
    /\ sub[lastSubscribe.client].n = 2
    /\ nReadyLoads = 1

\* the READY goroutine of subscribe request k of client c has been started and
\* has made its one call of PublishToUser
ReadyDone(c, k) == k \in sub[c].accepted /\ k \notin readyPending[c]

\* C21 as stated: every accepted subscription gets exactly one READY event:
\* once its goroutine has run, one READY has been published for it, and at no
\* time more than one
C21_ExactlyOneReady ==
    \A c \in Clients, k \in Requests :
        /\ readyPublished[c][k] <= 1
        /\ ReadyDone(c, k) => readyPublished[c][k] = 1

\* C21, amended: for every accepted subscription PublishToUser is called with
\* READY exactly once, eventually; one READY event is published for it when
\* that call succeeds and none when it fails, and never more than one
C21_OneReadyAttempt ==
    /\ [](\A c \in Clients, k \in Requests :
            /\ readyPublished[c][k] <= 1
            /\ readyPublished[c][k] = 1 => k \notin readyPending[c] \cup readyFailed[c]
            /\ k \in readyFailed[c] => k \notin readyPending[c]
            /\ k \in sub[c].accepted =>
                   \/ k \in readyPending[c] \cup readyFailed[c]
                   \/ readyPublished[c][k] = 1)
    /\ \A c \in Clients, k \in Requests :
           (k \in readyPending[c]) ~> (k \notin readyPending[c])

\* an accepted subscription whose READY event was published, once
C21_Witness ==
    \E c \in Clients, k \in Requests :
        /\ ReadyDone(c, k)
        /\ readyPublished[c][k] = 1
        /\ <<PublishChannel(clientState[c].user), clientState[c].user>> \in readyChannels

\* C22: the READY event of a subscription is published only after the subscribe
\* callback of that subscription has been called with success
C22_ReadyAfterAck ==
    [][\A c \in Clients, k \in Requests :
          readyPublished'[c][k] > readyPublished[c][k] => k \in sub[c].accepted]_vars

\* C23: when the user fetch of the aggregation fails, GetReadyState returns an
\* error without any other fetch, the subscribe request is answered with an
\* error, and no READY goroutine is started and no READY event published for it
C23_UserFetchFailureRejects ==
    /\ [][\A c \in Clients :
            (/\ nReadyLoads' = nReadyLoads + 1
             /\ lastLoad'.client = c
             /\ lastLoad'.userFailed) =>
                /\ lastLoad'.err /= "none"
                /\ lastLoad'.fetched = {"user"}
                /\ lastSubscribe' = [client |-> c, channel |-> sub[c].channel,
                                     reply |-> "ErrorInternal"]
                /\ sub'[c].pc = "idle"
                /\ sub'[c].accepted = sub[c].accepted
                /\ readyPending' = readyPending
                /\ readyPublished' = readyPublished
                /\ readyChannels' = readyChannels]_vars
    /\ [](\A c \in Clients, k \in Requests :
            (k \in readyPending[c] \cup readyFailed[c] \/ readyPublished[c][k] > 0) =>
                \/ k \in sub[c].accepted
                \/ k = sub[c].n /\ sub[c].pc = "ack")

\* a subscribe request to the own channel was rejected because the user fetch
\* failed, and no READY event exists for it
C23_Witness ==
    /\ lastLoad.userFailed
    /\ lastLoad.err = "error"
    /\ lastSubscribe.reply = "ErrorInternal"
    /\ lastSubscribe.client = lastLoad.client
    /\ sub[lastLoad.client].n = lastLoad.request
    /\ lastLoad.request \notin sub[lastLoad.client].accepted
    /\ readyPublished[lastLoad.client][lastLoad.request] = 0

\* the ids of the active calls of the conversations of a user, from the tables
ActiveCallIDsOf(userID) ==
    {c.id : c \in {x \in calls : /\ x.ended_at = NULL
                                 /\ userID \in GetParticipantIDs(x.conversation_id)}}

\* C24: when the user fetch succeeds, GetReadyState succeeds whichever of the
\* other fetches fail, every failed fetch is an empty list in the result and
\* every successful fetch is there with its data
C24_FailedFetchIsEmptyList ==
    (readyOut.user /= NULL /\ ~readyOut.outcomes["user"].err) =>
        LET o == readyOut.outcomes
            u == readyOut.user
            st == readyOut.loaded
        IN  /\ readyOut.err = "none"
            /\ st.user = User(u)
            /\ st.friends = IF o["friends"].err THEN <<>> ELSE GetFriends(u)
            /\ st.incoming_requests =
                   IF o["incoming"].err THEN <<>> ELSE GetIncomingRequests(u)
            /\ st.outgoing_requests =
                   IF o["outgoing"].err THEN <<>> ELSE GetOutgoingRequests(u)
            /\ st.conversations =
                   IF o["conversations"].err THEN <<>> ELSE GetUserConversations(u)
            /\ {x.call_id : x \in st.active_calls} =
                   IF o["activeCalls"].err \/ o["conversations"].err THEN {}
                   ELSE ActiveCallIDsOf(u)

\* the active calls of a set of conversations as a ready state lists them,
\* from the tables
ActiveCallsIn(convs) ==
    {[call_id |-> c.id, conversation_id |-> c.conversation_id,
      participants |-> {r.user_id : r \in {x \in call_participants :
                                             x.call_id = c.id /\ x.left_at = NULL}},
      started_at |-> <<"RFC3339", c.started_at>>] :
        c \in {x \in calls : x.conversation_id \in convs /\ x.ended_at = NULL}}

TrackerStatus(u) ==
    IF u \in DOMAIN onlineUsers /\ onlineUsers[u] > 0 THEN "online" ELSE "offline"

\* C26: in the ready state that is sent, every friend and every conversation
\* participant has the status the presence tracker gives for it at the
\* enrichment, whatever status the store returned, and is otherwise the entry
\* that was loaded
C26_StatusFromTracker ==
    (readyOut.user /= NULL /\ readyOut.err = "none") =>
        LET old == readyOut.loaded
            new == readyOut.ready
        IN  /\ DOMAIN new.friends = DOMAIN old.friends
            /\ \A i \in DOMAIN new.friends :
                  /\ new.friends[i].user.id = old.friends[i].user.id
                  /\ new.friends[i].user.status = TrackerStatus(old.friends[i].user.id)
            /\ DOMAIN new.conversations = DOMAIN old.conversations
            /\ \A i \in DOMAIN new.conversations :
                  /\ new.conversations[i].id = old.conversations[i].id
                  /\ DOMAIN new.conversations[i].participants =
                         DOMAIN old.conversations[i].participants
                  /\ \A j \in DOMAIN new.conversations[i].participants :
                        LET a == old.conversations[i].participants[j]
                            b == new.conversations[i].participants[j]
                        IN  b.id = a.id /\ b.status = TrackerStatus(a.id)

\* the store says online for everyone; a friend who is not connected is sent
\* as offline, and a conversation participant who is connected as online
C26_Witness ==
    /\ readyOut.user /= NULL
    /\ readyOut.err = "none"
    /\ \A u \in Users : userStatus[u] = "online"
    /\ \E i \in DOMAIN readyOut.ready.friends :
          /\ readyOut.loaded.friends[i].user.status = "online"
          /\ readyOut.ready.friends[i].user.status = "offline"
    /\ \E i \in DOMAIN readyOut.ready.conversations :
          \E j \in DOMAIN readyOut.ready.conversations[i].participants :
              readyOut.ready.conversations[i].participants[j].status = "online"

\* ========================================================== publisher claims
\* the message that a subscriber of the channel of user u reads for an event
MessageFor(u, eventType, data) ==
    <<<<"user:", "uuid", u>>, <<"json", [type |-> eventType, data |-> data]>>>>

\* C27: PublishToUsers calls PublishToUser exactly once for every position of
\* its recipient list, in the order of the list, whichever of the publishes
\* fail: a failure ends nothing and is not repeated, and every successful
\* publish puts one message on the wire
C27_OneAttemptPerRecipient ==
    [][(lastPublish'.fn = "PublishToUsers" /\ nPublishes' = nPublishes + 1) =>
          LET ids == lastPublish'.userIDs
              tried == lastPublish'.attempts
              failed == lastPublish'.fails
          IN  /\ Len(tried) = Len(ids)
              /\ \A i \in DOMAIN ids :
                    /\ tried[i].userID = ids[i]
                    /\ tried[i].err = (i \in failed)
              /\ \A m \in DOMAIN wire \cup DOMAIN wire' :
                    MapGet(wire', m) = MapGet(wire, m) +
                        Cardinality({i \in DOMAIN ids \ failed :
                            m = MessageFor(ids[i], lastPublish'.type, lastPublish'.data)})]_vars

\* the publish for the first of two recipients failed, the second was tried
\* and delivered
C27_Witness ==
    /\ lastPublish.fn = "PublishToUsers"
    /\ Len(lastPublish.userIDs) = 2
    /\ lastPublish.userIDs[1] /= lastPublish.userIDs[2]
    /\ lastPublish.fails = {1}
    /\ Len(lastPublish.attempts) = 2
    /\ MapGet(wire, MessageFor(lastPublish.userIDs[2], lastPublish.type, lastPublish.data)) = 1
    /\ MapGet(wire, MessageFor(lastPublish.userIDs[1], lastPublish.type, lastPublish.data)) = 0

\* C28: a PublishToUser(U, X, P) that succeeds puts one message on the channel
\* "user:" + U, which is named by U alone, and on no other channel, and the
\* message decodes to the envelope with type X and data P
C28_OneEnvelopeOnUserChannel ==
    [][(/\ lastPublish'.fn = "PublishToUser" /\ nPublishes' = nPublishes + 1
        /\ ~lastPublish'.attempts[1].err) =>
          \E m \in DOMAIN wire' :
              /\ m[1] = <<"user:", "uuid", lastPublish'.userIDs[1]>>
              /\ JSONUnmarshal(m[2]) = [type |-> lastPublish'.type, data |-> lastPublish'.data]
              /\ wire'[m] = MapGet(wire, m) + 1
              /\ \A k \in (DOMAIN wire \cup DOMAIN wire') \ {m} :
                    MapGet(wire', k) = MapGet(wire, k)]_vars

\* a successful PublishToUser left its one message on the wire
C28_Witness ==
    /\ lastPublish.fn = "PublishToUser"
    /\ ~lastPublish.attempts[1].err
    /\ lastPublish.data.call_id /= NULL
    /\ DOMAIN wire = {MessageFor(lastPublish.userIDs[1], lastPublish.type, lastPublish.data)}

\* the users that the table makes friends of u
FriendsOf(u) ==
    {v \in Users : \E r \in friend_requests :
        /\ r.status = "accepted"
        /\ {r.from_user_id, r.to_user_id} = {u, v}}

\* C29: notifyPresenceChange(U, status) hands a PRESENCE_UPDATE event with
\* user id U and that status to the publisher once for each friend id that the
\* lookup for U returns, and for nobody else; every publish that succeeds puts
\* that event on the friend's channel; when the lookup fails nothing is published
C29_PresenceUpdateToFriendsOnly ==
    [][(lastPublish'.fn = "notifyPresenceChange" /\ nPublishes' = nPublishes + 1) =>
          LET u == lastPublish'.userID
              tried == lastPublish'.attempts
              event == [user_id |-> u, status |-> lastPublish'.status]
              sent == {tried[i].userID : i \in {j \in DOMAIN tried : ~tried[j].err}}
          IN  IF lastPublish'.lookup.err
              THEN tried = <<>> /\ wire' = wire
              ELSE /\ {tried[i].userID : i \in DOMAIN tried} = FriendsOf(u)
                   /\ Len(tried) = Cardinality(FriendsOf(u))
                   /\ \A m \in DOMAIN wire \cup DOMAIN wire' :
                         MapGet(wire', m) = MapGet(wire, m) +
                             (IF \E v \in sent : m = MessageFor(v, "PRESENCE_UPDATE", event)
                              THEN 1 ELSE 0)]_vars

\* the friend of a user who went offline was sent the event
C29_Witness ==
    /\ lastPublish.fn = "notifyPresenceChange"
    /\ ~lastPublish.lookup.err
    /\ lastPublish.status = "offline"
    /\ \E v \in FriendsOf(lastPublish.userID) :
          /\ DOMAIN wire = {MessageFor(v, "PRESENCE_UPDATE",
                                       [user_id |-> lastPublish.userID, status |-> "offline"])}
          /\ \E w \in Users \ {v} : w \notin FriendsOf(lastPublish.userID)

\* C30: whichever publishes of a fan-out fail, the CALL_STATE step of StartCall,
\* JoinCall and LeaveCall answers the request with its success status and leaves
\* the stored sessions, participant rows and call messages as they were, and the
\* MESSAGE_CREATE step of LeaveCall commits the ended call and its message and
\* goes on to the CALL_STATE broadcast
C30_PublishFailureIsHarmless ==
    [][\A p \in Procs :
          /\ (req[p].pc = "bc_pub" /\ req'[p].pc = "idle") =>
                /\ published'.type = "CALL_STATE"
                /\ published'.failed \subseteq published'.to
                /\ resp' = IF req[p].op = "leave" THEN 204 ELSE 200
                /\ UNCHANGED <<calls, call_participants, callMessages>>
          /\ (req[p].pc = "lc_end" /\ req'[p].pc /= "lc_end") =>
                LET id == req[p].callID
                    r == EndCall(calls, call_participants, id, now')
                IN  /\ req'[p].pc = "bc_call"
                    /\ resp' = resp
                    /\ calls' = r.calls
                    /\ call_participants' = r.parts
                    /\ callMessages' = IF CreatesCallMessage(r)
                                       THEN [callMessages EXCEPT ![id] = @ + 1]
                                       ELSE callMessages]_vars

\* a StartCall was answered 200 although none of its CALL_STATE publishes
\* succeeded, and the session and the caller's row are stored
C30_Witness ==
    /\ resp = 200
    /\ published.type = "CALL_STATE"
    /\ Cardinality(published.to) > 1
    /\ published.failed = published.to
    /\ \E c \in calls : /\ c.ended_at = NULL
                        /\ c.conversation_id = published.conversation_id
                        /\ \E r \in call_participants :
                              r.call_id = c.id /\ r.left_at = NULL

\* the fetches that the claim calls independent
IndependentFetches == {"friends", "incoming", "outgoing", "conversations"}

\* the fetches in flight: called and not yet returned
InFlight == fetching.started \ fetching.returned

\* C31: during the aggregation no independent fetch waits for another one: once
\* the user is loaded, an independent fetch that has not started can start,
\* whichever other fetch is in flight
C31_IndependentFetchesConcurrent ==
    \A f \in IndependentFetches :
        (/\ fetching.result = "pending"
         /\ "user" \in fetching.returned \ fetching.failed
         /\ f \notin fetching.started) => ENABLED Aggregate_Start(f)

\* C32: EndCall is applied only to a call without live participants: at every
\* step in which a LeaveCall request calls EndCall, no user other than the leaver
\* has a live participant row of that call
C32_EndOnlyWhenEmpty ==
    [][\A p \in Procs :
          (req[p].pc = "lc_end" /\ req'[p].pc /= "lc_end") =>
              \A r \in call_participants :
                  (r.call_id = req[p].callID /\ r.left_at = NULL) =>
                      r.user_id = req[p].user]_vars

\* C33: a call with a non-null ended_at has no participant row with a null
\* left_at
C33_EndedCallHasNoLiveRow ==
    \A c \in calls :
        c.ended_at /= NULL =>
            \A r \in call_participants : r.call_id = c.id => r.left_at /= NULL

LiveConversationsOf(u) ==
    {c.conversation_id : c \in {x \in calls :
        /\ x.ended_at = NULL
        /\ \E r \in call_participants :
              r.call_id = x.id /\ r.user_id = u /\ r.left_at = NULL}}

\* C35: no user has a live participant row in active calls of more than one
\* conversation
C35_LiveInOneConversation ==
    \A u \in Users : Cardinality(LiveConversationsOf(u)) <= 1

\* C36: a StartCall or JoinCall that is answered with an error leaves the
\* stored calls and participant rows as they were before the request: here the
\* only request of the behaviour, sent when user 1 is alone in call 1
C36_ErrorLeavesStoreUnchanged ==
    (nRequests = 1 /\ resp >= 400 /\ \A p \in Procs : req[p].pc = "idle") =>
        OneCallStarted

\* every connection handler is past its go statement and every notification
\* goroutine has run
AllNotified ==
    /\ \A c \in Clients : clientState[c].st \in {"new", "connected", "closed"}
    /\ \A u \in Users : notifyStarted[u] = presenceSent.ran[u]

\* C37: once all notifications have completed, the last PRESENCE_UPDATE
\* published to a friend about a user is the user's presence in the tracker
C37_LastPresenceIsCurrent ==
    AllNotified =>
        \A u \in Users : \A f \in FriendsOf(u) :
            presenceSent.last[u][f] /= "none" =>
                presenceSent.last[u][f] = TrackerStatus(u)

\* C38: when every call request has completed, the last CALL_STATE event
\* published carries the stored state of its conversation: the id of its
\* active call and the users with a live row in it, or no call and nobody
C38_LastCallStateIsStored ==
    (AllIdle /\ published.type = "CALL_STATE") =>
        LET act == ActiveCallsOf(published.conversation_id)
        IN  IF act = {}
            THEN published.data.call_id = NULL /\ published.data.participants = {}
            ELSE \E c \in act :
                    /\ published.data.call_id = c.id
                    /\ published.data.participants =
                           {u \in Users : LiveRowsOf(c.id, u) /= {}}

\* C39: the user id of a connection's handlers is the one its handshake
\* authenticated, and every READY event is the snapshot of that user published
\* on "user:" + that id: no READY of user U is on the channel of another user
C39_ReadyOnOwnChannelOnly ==
    /\ [](/\ \A c \in SessionClients :
                clientState[c].st \in {"added", "connected", "removed", "closed"} =>
                    credentials[c] = <<"uuid", clientState[c].user>>
          /\ \A pair \in readyChannels : pair[1] = <<"user:", "uuid", pair[2]>>)
    /\ [][readyChannels' /= readyChannels =>
             \E c \in SessionClients :
                 /\ readyPending[c] /= {}
                 /\ readyChannels' = readyChannels \cup
                        {<<<<"user:">> \o credentials[c], credentials[c][2]>>}]_vars

\* two connections authenticated as different users each got their READY
C39_Witness ==
    /\ Cardinality(readyChannels) = 2
    /\ \E c, d \in SessionClients :
          /\ clientState[c].user /= clientState[d].user
          /\ \E k \in Requests : readyPublished[c][k] = 1
          /\ \E k \in Requests : readyPublished[d][k] = 1

====
